---- MODULE Spec2Model ----
(***************************************************************************)
(* Telemetry replay, detection and broadcast pipeline of the driver        *)
(* behaviour analytics service: app/detection.py (per-driver detector and  *)
(* risk score), app/simulator.py (the replayer and its run control),       *)
(* app/wsmanager.py (the broadcast hub) and the control endpoints of       *)
(* app/main.py.                                                            *)
(*                                                                         *)
(* Time is in whole seconds, speed in km/h, acceleration in km/h per       *)
(* second.  The replayer runs on one asyncio event loop: a coroutine runs  *)
(* without interruption from one suspension point (an awaited send_json,   *)
(* the pacing sleep, the awaited run task) to the next, and that stretch   *)
(* is one step of the model.  The callbacks the program itself schedules   *)
(* (the first step of a created task, the wake-up of a cancelled task, the *)
(* wake-up of start_simulation when its task is done) run in the order in  *)
(* which they were scheduled: they are kept in the queue "ready".  What    *)
(* the outside world triggers (a request, an expired timer, a completed    *)
(* send, a websocket that connects or closes) can happen at any time.      *)
(***************************************************************************)
EXTENDS Integers, Sequences, FiniteSets, TLC

VARIABLES
    driver_states,       \* detection.driver_states: a dictionary driver id -> state
    RUNNING,             \* simulator.RUNNING
    current_task,        \* simulator.current_task: a run number or NoTask
    tasks,               \* one entry per start_simulation call that got past its guard
    active_connections,  \* ConnectionManager.active_connections, in registration order
    csv,                 \* the rows of the trajectory file
    db,                  \* the Driver and Trip rows of the database
    background,          \* start_simulation calls queued by api_start_simulation
    ready,               \* the event loop's callbacks scheduled by the program
    ret,                 \* what the last call returned to its caller
    nCalls,              \* number of direct detector calls made so far
    lim,                 \* the bounds of the behaviour: starts, queued, conns
    history,             \* per driver, the samples the direct detector calls passed
    config               \* app.config: the SCORE_* values read from the environment

vars == <<driver_states, RUNNING, current_task, tasks, active_connections,
          csv, db, background, ready, ret, nCalls, lim, history, config>>

\* Python's None, for the values that are otherwise a timestamp, a row, a
\* message or a dictionary: the empty tuple, a present value v being <<v>>
None == <<>>
Some(v) == <<v>>
Val(opt) == opt[1]

\* no driver filter (selected_driver_id is None or empty)
NoFilter == <<>>
\* current_task before the first start
NoTask == 0

----------------------------------------------------------------------------
(* Bounds of the model *)

MaxStarts == 1       \* start_simulation calls that create a run task
MaxQueued == 1       \* start_simulation calls queued and not yet executed
MaxConns == 1        \* websocket connections
RaceStarts == 4      \* run tasks in the start/stop interleavings
LiveStarts == 2      \* run tasks where every scheduled step is taken
HubStarts == 3       \* run tasks in the interleavings with a websocket client
HubConns == 2        \* websocket clients of one broadcast
MaxWrites == 3       \* database writes of one sample before one raises
FilterStarts == 2    \* run tasks started with a driver filter of no known track
ConvoyStarts == 2    \* run tasks on the file whose tracks follow each other in time
RerunStarts == 2     \* run tasks that replay the two tracks one after the other
IdleCalls == 4       \* detector calls in the behaviours of the idling rule
RuleCalls == 2       \* detector calls in the behaviours of the threshold rules
ConfigCalls == 2     \* detector calls in the behaviours with a configured score
StoreCalls == 1      \* detector calls beside the runs of the replay service
MaxCalls == 3        \* direct detector calls in one behaviour
Burst == 19          \* samples already observed in a seeded state

(* Program constants: app/config.py *)
OVERSPEED_KPH == 50
HARSH_BRAKE_KPH_S == 0 - 5
SUDDEN_ACCEL_KPH_S == 5
IDLE_SECONDS_THRESHOLD == 30

----------------------------------------------------------------------------
(* Identifiers and conversions *)

\* the tracks of the trajectory files below
TrackIds == {1, 2}

\* str(track_id) and int(text): decimal numerals of the track identifiers
Numerals == <<"1", "2", "3", "4", "5", "6", "7", "8", "9">>
str(track_id) == Numerals[track_id]
IsNumeral(text) == \E k \in DOMAIN Numerals : Numerals[k] = text
int(text) == CHOOSE k \in DOMAIN Numerals : Numerals[k] = text

\* f"driver_{track_id}"
DriverId(track_id) == <<"driver", str(track_id)>>

Drivers == {DriverId(k) : k \in TrackIds}

\* timestamp.isoformat() and datetime.fromisoformat(...)
isoformat(ts) == <<"iso", ts>>
fromisoformat(s) == s[2]

Max(a, b) == IF a >= b THEN a ELSE b

\* dictionary assignment d[key] = value and deletion del d[key]
Put(d, key, value) ==
    [k \in DOMAIN d \cup {key} |-> IF k = key THEN value ELSE d[k]]
Del(d, key) == [k \in DOMAIN d \ {key} |-> d[k]]

\* F applied to the value of x: the program computes x once and goes on
\* with the result
With(x, F(_)) == CHOOSE result \in {F(value) : value \in {x}} : TRUE

----------------------------------------------------------------------------
(* app/detection.py *)

\* an acceleration that takes the whole speed change when no time has passed
compute_acceleration_jump(prev_speed_kph, prev_ts, speed_kph, ts) ==
    LET delta_s == ts - prev_ts
    IN  IF delta_s <= 0 THEN speed_kph - prev_speed_kph
        ELSE (speed_kph - prev_speed_kph) \div delta_s

\* (speed_kph - prev_speed_kph) / delta_s in whole km/h per second, rounded down
compute_acceleration(prev_speed_kph, prev_ts, speed_kph, ts) ==
    LET delta_s == ts - prev_ts
    IN  IF delta_s <= 0 THEN 0 ELSE (speed_kph - prev_speed_kph) \div delta_s

NewDriverState(timestamp, speed_kph) ==
    [ last_speed_kph         |-> speed_kph,
      last_timestamp         |-> timestamp,
      current_idle_start_ts  |-> None,
      overspeed_count        |-> 0,
      harsh_brake_count      |-> 0,
      sudden_accel_count     |-> 0,
      idle_count             |-> 0,
      last_non_zero_speed_ts |-> IF speed_kph > 0 THEN Some(timestamp) ELSE None ]

Event(event_type, timestamp, pos, speed_kph, acceleration_kph_s, meta) ==
    [ event_type         |-> event_type,
      timestamp          |-> isoformat(timestamp),
      pos                |-> pos,
      speed_kph          |-> speed_kph,
      acceleration_kph_s |-> acceleration_kph_s,
      meta               |-> meta ]

\* an overspeed rule that fires at the threshold
IsOverspeeding_at_threshold(speed_kph) == speed_kph >= OVERSPEED_KPH

IsOverspeeding(speed_kph) == speed_kph > OVERSPEED_KPH

\* a harsh-brake rule that fires at the threshold
IsHarshBraking_at_threshold(acceleration_kph_s) ==
    acceleration_kph_s <= HARSH_BRAKE_KPH_S

IsHarshBraking(acceleration_kph_s) == acceleration_kph_s < HARSH_BRAKE_KPH_S

\* a sudden-acceleration rule that fires at the threshold
IsSuddenAcceleration_at_threshold(acceleration_kph_s) ==
    acceleration_kph_s >= SUDDEN_ACCEL_KPH_S

IsSuddenAcceleration(acceleration_kph_s) == acceleration_kph_s > SUDDEN_ACCEL_KPH_S

\* an idling rule that needs more than the threshold
IdleFires_after_threshold(state, timestamp, speed_kph) ==
    /\ speed_kph = 0
    /\ state.current_idle_start_ts # None
    /\ timestamp - Val(state.current_idle_start_ts) > IDLE_SECONDS_THRESHOLD

\* the idling branch of detect_events: does this sample fire an idling event
IdleFires(state, timestamp, speed_kph) ==
    /\ speed_kph = 0
    /\ state.current_idle_start_ts # None
    /\ timestamp - Val(state.current_idle_start_ts) >= IDLE_SECONDS_THRESHOLD

\* an idle episode that stays open when its event is emitted
IdleStartStill_stays_open(state, timestamp) ==
    IF state.current_idle_start_ts = None THEN Some(timestamp)
    ELSE state.current_idle_start_ts

\* current_idle_start_ts after a sample with speed 0
IdleStartStill(state, timestamp) ==
    IF state.current_idle_start_ts = None THEN Some(timestamp)
    ELSE IF IdleFires(state, timestamp, 0) THEN None
         ELSE state.current_idle_start_ts

\* an idle episode that a moving sample leaves open
IdleStartMoving_stays_open(state) == state.current_idle_start_ts

\* current_idle_start_ts after a sample with another speed: the vehicle is
\* moving, idle tracking is reset
IdleStartMoving(state) == None

\* a counter that is incremented by two
Count_twice(count, fired) == count + (IF fired THEN 2 ELSE 0)

\* state['..._count'] += 1 in the branch of a rule that fired
Count(count, fired) == count + (IF fired THEN 1 ELSE 0)

\* detect_events: the events of one sample and the driver table after it
detect_events(ds, driver_id, timestamp, pos, speed_kph, acceleration_kph_s) ==
    LET state == IF driver_id \notin DOMAIN ds
                 THEN NewDriverState(timestamp, speed_kph)
                 ELSE ds[driver_id]
        over  == IsOverspeeding(speed_kph)
        brake == IsHarshBraking(acceleration_kph_s)
        accel == IsSuddenAcceleration(acceleration_kph_s)
        idle  == IdleFires(state, timestamp, speed_kph)
        ev(kind, meta) ==
            Event(kind, timestamp, pos, speed_kph, acceleration_kph_s, meta)
        events ==
            (IF over THEN <<ev("overspeeding", [threshold |-> OVERSPEED_KPH])>>
                     ELSE <<>>)
            \o (IF brake THEN <<ev("harsh_braking", [threshold |-> HARSH_BRAKE_KPH_S])>>
                         ELSE <<>>)
            \o (IF accel THEN <<ev("sudden_acceleration", [threshold |-> SUDDEN_ACCEL_KPH_S])>>
                         ELSE <<>>)
            \o (IF idle THEN <<ev("idling",
                                  [idle_duration_seconds |->
                                       timestamp - Val(state.current_idle_start_ts),
                                   threshold |-> IDLE_SECONDS_THRESHOLD])>>
                        ELSE <<>>)
        after ==
            [ last_speed_kph         |-> speed_kph,
              last_timestamp         |-> timestamp,
              current_idle_start_ts  |-> IF speed_kph = 0
                                         THEN IdleStartStill(state, timestamp)
                                         ELSE IdleStartMoving(state),
              overspeed_count        |-> Count(state.overspeed_count, over),
              harsh_brake_count      |-> Count(state.harsh_brake_count, brake),
              sudden_accel_count     |-> Count(state.sudden_accel_count, accel),
              idle_count             |-> Count(state.idle_count, idle),
              last_non_zero_speed_ts |-> IF speed_kph = 0
                                         THEN state.last_non_zero_speed_ts
                                         ELSE Some(timestamp) ]
    IN  [ states |-> Put(ds, driver_id, after), events |-> events ]

\* a penalty that also counts the sudden accelerations
Penalty_with_sudden_accel(state) ==
    state.overspeed_count * 2 + state.harsh_brake_count * 3 + state.idle_count * 1
        + state.sudden_accel_count * 1

Penalty(state) ==
    state.overspeed_count * 2 + state.harsh_brake_count * 3 + state.idle_count * 1

\* a score without the lower clamp
ScoreOfPenalty_unclamped(penalty) == 100 - penalty

ScoreOfPenalty(penalty) == Max(0, 100 - penalty)

calculate_risk_score(ds, driver_id) ==
    IF driver_id \notin DOMAIN ds THEN 100 ELSE ScoreOfPenalty(Penalty(ds[driver_id]))

\* driver_states.get(driver_id)
get_driver_state(ds, driver_id) ==
    IF driver_id \notin DOMAIN ds THEN None ELSE Some(ds[driver_id])

\* a reset that drops the state of every driver
reset_driver_state_all(ds, driver_id) ==
    IF driver_id \in DOMAIN ds THEN <<>> ELSE ds

reset_driver_state(ds, driver_id) ==
    IF driver_id \in DOMAIN ds THEN Del(ds, driver_id) ELSE ds

----------------------------------------------------------------------------
(* The trajectory file.  A row is (track_id, time, pos): pos is the position
   in metres along a meridian, so that the great-circle distance between two
   rows is the difference of their positions. *)

Row(track_id, time, pos) == [track_id |-> track_id, time |-> time, pos |-> pos]

\* Track 1: standstill, then 50 m in 3 s (60 km/h, +20 km/h/s).
\* Track 2: standstill for 30 s.
\* The rows are not in (track, time) order in the file.
TwoTracks ==
    << Row(2, 30, 0), Row(1, 3, 50), Row(2, 0, 0), Row(1, 0, 0) >>

\* One track of two rows, for the runs that only need a second point.
OneTrack == << Row(1, 3, 50), Row(1, 0, 0) >>

\* Track 2 begins 3 s after the last row of track 1 and 50 m from it, and
\* covers 100 m in 3 s.
Convoy ==
    << Row(2, 9, 100), Row(1, 3, 50), Row(2, 6, 0), Row(1, 0, 0) >>

\* Four tracks of one row each, not in the order of their identifiers.
FourTracks ==
    << Row(4, 0, 0), Row(2, 0, 0), Row(3, 0, 0), Row(1, 0, 0) >>

\* a latitude or longitude cell whose text is not a number
Unparsable == 0 - 1

\* float(row['latitude']), float(row['longitude']): the number, or nothing
\* when the conversion raises ValueError
float(cell) == IF cell = Unparsable THEN None ELSE Some(cell)

\* Track 1 with a cell that is not a number in its second row of three, and
\* track 2 of one row.
BadRow ==
    << Row(1, 6, 100), Row(2, 0, 0), Row(1, 3, Unparsable), Row(1, 0, 0) >>

SeqToSet(s) == {s[i] : i \in DOMAIN s}

\* the sequences that hold exactly the rows of the set S, each once
RECURSIVE Orders(_)
Orders(S) ==
    IF S = {} THEN {<<>>}
    ELSE UNION {{<<r>> \o o : o \in Orders(S \ {r})} : r \in S}

\* a sort that returns the rows in any order
SortedByTime_unsorted(rows) == Orders(SeqToSet(rows))

\* df.sort_values('time') on the rows of one track: every order of the rows
\* with non-decreasing time (the sort is not stable, so rows with equal time
\* may come out in either order)
SortedByTime(rows) ==
    {o \in Orders(SeqToSet(rows)) :
        \A i \in 1..(Len(o) - 1) : o[i].time <= o[i + 1].time}

RowsOfTrack(rows, track_id) == SelectSeq(rows, LAMBDA r : r.track_id = track_id)

\* sorted(df['track_id'].unique())
RECURSIVE Ascending(_)
Ascending(S) ==
    IF S = {} THEN <<>>
    ELSE LET least == CHOOSE x \in S : \A y \in S : x <= y
         IN  <<least>> \o Ascending(S \ {least})

FirstN(s, n) == SubSeq(s, 1, IF Len(s) < n THEN Len(s) ELSE n)

\* How many writes the database accepts while one sample is persisted before
\* one raises: a sample of these files asks for at most MaxWrites (two events
\* and the score).  A healthy database accepts them all.
Writes == 0..MaxWrites
Healthy == {MaxWrites}

\* the [:3] of the default track selection
DEFAULT_TRACKS == 3

----------------------------------------------------------------------------
(* app/simulator.py: kinematics *)

calculate_distance_m(pos1, pos2) == IF pos2 >= pos1 THEN pos2 - pos1 ELSE pos1 - pos2

\* distance_km / time_diff_hours, with the distance in metres and the time in
\* seconds: (d / 1000) / (dt / 3600) = 18 d / (5 dt)
calculate_speed_kph(pos1, time1, pos2, time2) ==
    IF time2 - time1 <= 0 THEN 0
    ELSE (18 * calculate_distance_m(pos1, pos2)) \div (5 * (time2 - time1))

----------------------------------------------------------------------------
(* app/detection.py: handle_point *)

\* the dictionary handle_point returns
DetectionResult(payload, acceleration_kph_s, events, risk_score, state) ==
    [ driver_id          |-> payload.driver_id,
      timestamp          |-> payload.timestamp,
      pos                |-> payload.pos,
      speed_kph          |-> payload.speed_kph,
      acceleration_kph_s |-> acceleration_kph_s,
      events             |-> events,
      risk_score         |-> risk_score,
      overspeed_count    |-> state.overspeed_count,
      harsh_brake_count  |-> state.harsh_brake_count,
      sudden_accel_count |-> state.sudden_accel_count,
      idle_count         |-> state.idle_count ]

\* an acceleration that is never derived: 0 for every sample
PointAcceleration_never(ds, driver_id, speed_kph, timestamp) == 0

\* lines 141-150: 0 for a driver without state, otherwise the change from
\* the state's last speed over the time since the state's last timestamp
PointAcceleration(ds, driver_id, speed_kph, timestamp) ==
    IF driver_id \in DOMAIN ds
    THEN compute_acceleration(ds[driver_id].last_speed_kph,
                              ds[driver_id].last_timestamp,
                              speed_kph, timestamp)
    ELSE 0

\* the database writes _persist_events_and_scores asks for, in order: the
\* trip if ensure_trip_exists finds none, one row per event, the score of the day
PersistWrites(database, driver_id, track_id, events, risk_score, state) ==
    (IF track_id \in database.trips THEN <<>>
     ELSE <<[table |-> "trips", row |-> track_id]>>)
    \o [i \in 1..Len(events) |->
          [table |-> "events",
           row |-> [driver_id |-> int(driver_id[2]), track_id |-> track_id,
                    event |-> events[i]]]]
    \o <<[table |-> "scores",
          row |-> [driver_id         |-> int(driver_id[2]),
                   avg_speed         |-> state.last_speed_kph,
                   overspeed_count   |-> state.overspeed_count,
                   harsh_brake_count |-> state.harsh_brake_count,
                   idle_count        |-> state.idle_count,
                   risk_score        |-> risk_score]]>>

\* one committed write
Commit(database, write) ==
    IF write.table = "trips" THEN [database EXCEPT !.trips = @ \cup {write.row}]
    ELSE IF write.table = "events" THEN [database EXCEPT !.events = Append(@, write.row)]
    ELSE [database EXCEPT !.scores = Put(@, write.row.driver_id, write.row)]

RECURSIVE CommitAll(_, _)
CommitAll(database, writes) ==
    IF writes = <<>> THEN database
    ELSE With(Commit(database, Head(writes)),
              LAMBDA committed : CommitAll(committed, Tail(writes)))

\* _persist_events_and_scores: each write is committed on its own; the first
\* one that raises ends the function in its except clause, which only logs.
\* "written" is the number of writes the database accepts before it raises.
persist_events_and_scores(database, driver_id, track_id, events, risk_score, state, written) ==
    With(FirstN(PersistWrites(database, driver_id, track_id, events,
                              risk_score, state), written),
         LAMBDA accepted : CommitAll(database, accepted))

\* a gateway that is asked again for the write that raised
Requested_retries(writes, written) ==
    [i \in 1..(IF written < Len(writes) THEN written + 2 ELSE Len(writes)) |->
        [write |-> writes[IF i > written + 1 THEN written + 1 ELSE i],
         ok |-> i <= written]]

\* lines 207-253: the calls of persist_event, ensure_trip_exists's insert
\* and upsert_driver_score that are made for one sample, in order, and
\* whether each returned: the call that raises is the last one made
Requested(writes, written) ==
    [i \in 1..(IF written < Len(writes) THEN written + 1 ELSE Len(writes)) |->
        [write |-> writes[i], ok |-> i <= written]]

\* the result of handle_point's own except clause
FallbackResult(payload) ==
    [ driver_id          |-> payload.driver_id,
      timestamp          |-> payload.timestamp,
      pos                |-> payload.pos,
      speed_kph          |-> payload.speed_kph,
      acceleration_kph_s |-> 0,
      events             |-> <<>>,
      risk_score         |-> 100,
      overspeed_count    |-> 0,
      harsh_brake_count  |-> 0,
      sudden_accel_count |-> 0,
      idle_count         |-> 0 ]

\* a handle_point in which a write that raises is not absorbed by
\* _persist_events_and_scores and ends in handle_point's except clause
handle_point_unabsorbed(ds, database, payload, written) ==
    LET driver_id == payload.driver_id
        timestamp == fromisoformat(payload.timestamp)
        speed_kph == payload.speed_kph
        acceleration_kph_s == PointAcceleration(ds, driver_id, speed_kph, timestamp)
    IN  With(detect_events(ds, driver_id, timestamp, payload.pos,
                           speed_kph, acceleration_kph_s),
             LAMBDA detected :
               LET risk_score == calculate_risk_score(detected.states, driver_id)
                   writes == PersistWrites(database, driver_id, payload.track_id,
                                           detected.events, risk_score,
                                           detected.states[driver_id])
                   raised == detected.events # <<>> /\ written < Len(writes)
               IN  [ states |-> detected.states,
                     db     |-> IF detected.events = <<>> THEN database
                                ELSE persist_events_and_scores(database, driver_id,
                                         payload.track_id, detected.events,
                                         risk_score, detected.states[driver_id],
                                         written),
                     requested |-> IF detected.events = <<>> THEN <<>>
                                   ELSE Requested(PersistWrites(database, driver_id,
                                            payload.track_id, detected.events,
                                            risk_score, detected.states[driver_id]),
                                            written),
                     result |-> IF raised THEN FallbackResult(payload)
                                ELSE DetectionResult(payload, acceleration_kph_s,
                                         detected.events, risk_score,
                                         detected.states[driver_id]) ])

\* handle_point: the acceleration comes from the driver's state, then the
\* detector and the score run, and a sample with events is persisted; gives
\* the driver table, the database, the writes asked for and the result
handle_point(ds, database, payload, written) ==
    LET driver_id == payload.driver_id
        timestamp == fromisoformat(payload.timestamp)
        speed_kph == payload.speed_kph
        acceleration_kph_s == PointAcceleration(ds, driver_id, speed_kph, timestamp)
    IN  With(detect_events(ds, driver_id, timestamp, payload.pos,
                           speed_kph, acceleration_kph_s),
             LAMBDA detected :
               LET risk_score == calculate_risk_score(detected.states, driver_id)
               IN  [ states |-> detected.states,
                     db     |-> IF detected.events = <<>> THEN database
                                ELSE persist_events_and_scores(database, driver_id,
                                         payload.track_id, detected.events,
                                         risk_score, detected.states[driver_id],
                                         written),
                     requested |-> IF detected.events = <<>> THEN <<>>
                                   ELSE Requested(PersistWrites(database, driver_id,
                                            payload.track_id, detected.events,
                                            risk_score, detected.states[driver_id]),
                                            written),
                     result |-> DetectionResult(payload, acceleration_kph_s,
                                         detected.events, risk_score,
                                         detected.states[driver_id]) ])

----------------------------------------------------------------------------
(* app/simulator.py: the messages of one point *)

TelemetryPayload(track_id, row, speed_kph) ==
    [ driver_id |-> DriverId(track_id),
      track_id  |-> str(track_id),
      timestamp |-> isoformat(row.time),
      pos       |-> row.pos,
      speed_kph |-> speed_kph ]

TelemetryMessage(telemetry_payload) ==
    [type |-> "telemetry", payload |-> telemetry_payload]

ScoreMessage(detection_result) ==
    [ type    |-> "score",
      payload |-> [ driver_id          |-> detection_result.driver_id,
                    risk_score         |-> detection_result.risk_score,
                    overspeed_count    |-> detection_result.overspeed_count,
                    harsh_brake_count  |-> detection_result.harsh_brake_count,
                    sudden_accel_count |-> detection_result.sudden_accel_count,
                    idle_count         |-> detection_result.idle_count ] ]

EventMessage(event) == [type |-> "event", payload |-> event]

\* the broadcasts of one point, in the order of the calls in _run_simulation
PointMessages(telemetry_payload, detection_result) ==
    <<TelemetryMessage(telemetry_payload)>>
    \o <<ScoreMessage(detection_result)>>
    \o [i \in 1..Len(detection_result.events) |->
            EventMessage(detection_result.events[i])]

----------------------------------------------------------------------------
(* app/simulator.py: _run_simulation.  A run is one asyncio task; m is the
   part of the program state a step of the task reads and writes:
   m.ds (driver_states), m.running (RUNNING), m.conns (active_connections),
   m.db and m.task, the task's own position and local variables. *)

\* selected_driver_id.split('_')[1] and int(...): the filter is held as the
\* tuple of its '_'-separated parts
FilterError(selected_driver_id) ==
    IF Len(selected_driver_id) < 2 THEN "IndexError"
    ELSE IF ~IsNumeral(selected_driver_id[2]) THEN "ValueError"
    ELSE "none"

\* a mapping from driver to track that is off by one
FilterTrack_next(selected_driver_id) == int(selected_driver_id[2]) + 1

FilterTrack(selected_driver_id) == int(selected_driver_id[2])

\* the task created by asyncio.create_task(_run_simulation(...))
NewTask(selected_driver_id) ==
    [ st            |-> "pending",  \* pending, send, sleep or done
      cancel        |-> FALSE,      \* Task.cancel() was called and not yet delivered
      outer         |-> "await",    \* start_simulation awaits the task, or is done
      filter        |-> selected_driver_id,
      unique_tracks |-> <<>>,
      ti            |-> 0,          \* index in unique_tracks of the track entered last
      group         |-> <<>>,       \* that track's rows, sorted by time
      pi            |-> 0,          \* index in group of the row processed last
      prev          |-> None,       \* prev_lat, prev_lon, prev_time
      result        |-> None,       \* detection_result of that row
      requested     |-> <<>>,       \* database writes asked for that row, and
                                    \* whether each returned (ok) or raised
      todo          |-> <<>>,       \* broadcasts of that row still to be called
      snap          |-> <<>>,       \* list(active_connections) not yet delivered to
      attempt       |-> None,       \* the last send_json of that row: to whom, and
                                    \* whether it returned (ok) or raised
      log           |-> <<>>,       \* messages of that row handed to broadcast so far
      stopSeen      |-> FALSE,      \* stop_simulation was called during this run
      end           |-> "running" ] \* then completed, stopped, error or cancelled

\* the task is done: its local variables are gone
Done(task, how) ==
    [NewTask(task.filter) EXCEPT !.st = "done", !.end = how,
                                 !.outer = task.outer, !.stopSeen = task.stopSeen]

\* the task is done and start_simulation has returned: nothing of the run is left
Returned ==
    [NewTask(NoFilter) EXCEPT !.st = "done", !.outer = "done", !.end = "returned"]

\* a run that ends without clearing the flag
Finish_keeps_flag(m, how) ==
    [m EXCEPT !.task = Done(m.task, how)]

\* the finally clause: RUNNING = False, and the task is done
Finish(m, how) ==
    [m EXCEPT !.running = FALSE, !.task = Done(m.task, how)]

\* ConnectionManager.disconnect
disconnect(conns, websocket) == SelectSeq(conns, LAMBDA c : c # websocket)

\* the driver and trip rows that lines 155-181 make sure exist
EnsureDriverTrip(database, track_id) ==
    [database EXCEPT !.drivers = @ \cup {DriverId(track_id)},
                     !.trips = @ \cup {str(track_id)}]

\* await asyncio.sleep(interval), after prev_* are set to the current row
Pace(m) ==
    [m EXCEPT !.task.st = "sleep",
              !.task.prev = Some(m.task.group[m.task.pi]),
              !.task.todo = <<>>,
              !.task.snap = <<>>]

\* a copy that is gone through from the connection registered last
Snapshot_reversed(conns) == [i \in DOMAIN conns |-> conns[Len(conns) + 1 - i]]

\* list(self.active_connections): the copy a broadcast goes through
Snapshot(conns) == conns

\* a broadcast that enters its send loop with no connection registered
NextBroadcast_without_check(m) ==
    IF m.task.todo = <<>> THEN Pace(m)
    ELSE [m EXCEPT !.task.st = "send",
                   !.task.log = Append(@, Head(m.task.todo)),
                   !.task.todo = Tail(@),
                   !.task.snap = Snapshot(m.conns)]

\* the next manager.broadcast call of the row: with no connection the call
\* returns at once and so do the calls after it; otherwise the task is
\* suspended in the first send_json of the call
NextBroadcast(m) ==
    IF m.task.todo = <<>> THEN Pace(m)
    ELSE IF m.conns = <<>>
         THEN Pace([m EXCEPT !.task.log = @ \o m.task.todo])
         ELSE [m EXCEPT !.task.st = "send",
                        !.task.log = Append(@, Head(m.task.todo)),
                        !.task.todo = Tail(@),
                        !.task.snap = Snapshot(m.conns)]

\* a first row that is taken as moving
PointSpeed_first_moving(prev, row) ==
    IF prev = None THEN OVERSPEED_KPH + 1
    ELSE calculate_speed_kph(Val(prev).pos, Val(prev).time, row.pos, row.time)

\* lines 206-213: 0 without a previous point, otherwise the speed from the
\* previous point to this row
PointSpeed(prev, row) ==
    IF prev = None THEN 0
    ELSE calculate_speed_kph(Val(prev).pos, Val(prev).time, row.pos, row.time)

\* lines 202-273 for one row: the conversions of lines 203-204, whose
\* ValueError is raised outside the try of line 238 and so reaches the
\* handler of line 300; then speed, handle_point, and the first broadcast
\* when a connection is registered
ProcessPoint(m, pi, written) ==
    LET track_id == m.task.unique_tracks[m.task.ti]
        row == m.task.group[pi]
        speed_kph == PointSpeed(m.task.prev, row)
        telemetry_payload == TelemetryPayload(track_id, row, speed_kph)
        handled == handle_point(m.ds, m.db, telemetry_payload, written)
        m1 == [m EXCEPT !.ds = handled.states,
                        !.db = handled.db,
                        !.task.pi = pi,
                        !.task.result = Some(handled.result),
                        !.task.requested = handled.requested,
                        !.task.log = <<>>,
                        !.task.todo = <<>>,
                        !.task.attempt = None]
    IN  IF float(m.task.group[pi].pos) = None
        THEN Finish(m, "error")
        ELSE With(m1, LAMBDA detected :
                IF detected.conns # <<>>
                THEN NextBroadcast([detected EXCEPT !.task.todo =
                        PointMessages(telemetry_payload, Val(detected.task.result))])
                ELSE Pace(detected))

\* a database error that ends the replay
SkipTrack_aborts(m) == [m EXCEPT !.running = FALSE]

\* lines 183-187: the except clause of the driver and trip lookup prints
\* the error and goes on with the next track
SkipTrack(m) == m

\* a track entered with prev_lat, prev_lon and prev_time left as they are
EnterTrack_keeps_prev(m, ti, group) ==
    [m EXCEPT !.db = EnsureDriverTrip(@, m.task.unique_tracks[ti]),
              !.task.ti = ti,
              !.task.group = group,
              !.task.pi = 0]

\* lines 155-195: the track's driver and trip rows exist, and the loop over
\* its rows starts with no previous point
EnterTrack(m, ti, group) ==
    [m EXCEPT !.db = EnsureDriverTrip(@, m.task.unique_tracks[ti]),
              !.task.ti = ti,
              !.task.group = group,
              !.task.pi = 0,
              !.task.prev = None]

RECURSIVE TrackLoop(_, _, _, _, _)
RECURSIVE PointLoop(_, _, _, _, _)

\* the top of "for track_id in unique_tracks" at index ti; dbFail holds the
\* tracks whose database calls raise ("continue"), groups[track] is the order
\* sort_values gives the track's rows, written is how many writes the
\* database accepts when a sample is persisted
TrackLoop(m, ti, dbFail, groups, written) ==
    IF ti > Len(m.task.unique_tracks) THEN Finish(m, "completed")
    ELSE IF ~m.running THEN Finish(m, "stopped")
    ELSE LET track_id == m.task.unique_tracks[ti]
         IN  IF track_id \in dbFail
             THEN TrackLoop(SkipTrack(m), ti + 1, dbFail, groups, written)
             ELSE PointLoop(EnterTrack(m, ti, groups[track_id]), 1,
                            dbFail, groups, written)

\* the top of "for _, row in group.iterrows()" at index pi
PointLoop(m, pi, dbFail, groups, written) ==
    IF pi > Len(m.task.group) \/ ~m.running
    THEN TrackLoop(m, m.task.ti + 1, dbFail, groups, written)
    ELSE ProcessPoint(m, pi, written)

\* the rows left in df after the driver filter
FilteredRows(rows, selected_driver_id) ==
    IF selected_driver_id = NoFilter THEN rows
    ELSE IF FilterError(selected_driver_id) # "none" THEN <<>>
    ELSE RowsOfTrack(rows, FilterTrack(selected_driver_id))

\* a selection without the [:3] of line 138
SelectedTracks_all(rows, selected_driver_id) ==
    IF selected_driver_id # NoFilter
    THEN IF FilterError(selected_driver_id) # "none"
         THEN <<>>
         ELSE <<FilterTrack(selected_driver_id)>>
    ELSE Ascending({rows[i].track_id : i \in DOMAIN rows})

\* lines 123-139: the tracks a run selects; <<>> when the filter does not parse
SelectedTracks(rows, selected_driver_id) ==
    IF selected_driver_id # NoFilter
    THEN IF FilterError(selected_driver_id) # "none"
         THEN <<>>
         ELSE <<FilterTrack(selected_driver_id)>>
    ELSE FirstN(Ascending({rows[i].track_id : i \in DOMAIN rows}), DEFAULT_TRACKS)

\* the orders "group.sort_values('time')" can give the rows of the tracks in ids
GroupChoices(rows, ids) ==
    {g \in [ids -> UNION {SortedByTime(RowsOfTrack(rows, k)) : k \in ids}] :
        \A k \in ids : g[k] \in SortedByTime(RowsOfTrack(rows, k))}

\* a run that a failed read leaves marked as running
Begin_stays_running(m, rows, readOk, dbFail, groups, written) ==
    LET selected_driver_id == m.task.filter
    IN  IF ~readOk THEN Finish_keeps_flag(m, "error")
        ELSE IF selected_driver_id # NoFilter /\ FilterError(selected_driver_id) # "none"
        THEN Finish(m, "error")
        ELSE TrackLoop([m EXCEPT !.task.unique_tracks =
                            SelectedTracks(FilteredRows(rows, selected_driver_id),
                                           selected_driver_id)],
                       1, dbFail, groups, written)

\* lines 112-139: read the file, apply the filter, select the tracks, and
\* enter the loop
Begin(m, rows, readOk, dbFail, groups, written) ==
    LET selected_driver_id == m.task.filter
    IN  IF ~readOk THEN Finish(m, "error")
        ELSE IF selected_driver_id # NoFilter /\ FilterError(selected_driver_id) # "none"
        THEN Finish(m, "error")
        ELSE TrackLoop([m EXCEPT !.task.unique_tracks =
                            SelectedTracks(FilteredRows(rows, selected_driver_id),
                                           selected_driver_id)],
                       1, dbFail, groups, written)

\* the task resumes after "await connection.send_json(message)": a send that
\* raised removes the connection, then the next connection of the snapshot
\* or the next broadcast
\* a broadcast that gives up at the first send that raises
AfterSend_gives_up(m, sendOk) ==
    LET websocket == Head(m.task.snap)
        m1 == [m EXCEPT !.conns = IF sendOk THEN @ ELSE disconnect(@, websocket),
                        !.task.snap = IF sendOk THEN Tail(@) ELSE <<>>,
                        !.task.attempt = Some([to |-> websocket, ok |-> sendOk])]
    IN  IF m1.task.snap # <<>> THEN m1 ELSE NextBroadcast(m1)

AfterSend(m, sendOk) ==
    LET websocket == Head(m.task.snap)
        m1 == [m EXCEPT !.conns = IF sendOk THEN @ ELSE disconnect(@, websocket),
                        !.task.snap = Tail(@),
                        !.task.attempt = Some([to |-> websocket, ok |-> sendOk])]
    IN  IF m1.task.snap # <<>> THEN m1 ELSE NextBroadcast(m1)

\* a cancellation that the task swallows: it stays where it is
Unwind_lost(m) == m

\* CancelledError raised at the task's suspension point: no handler of
\* _run_simulation catches it, its finally clause runs; a task cancelled
\* before its first step never enters the function body
Unwind(m) ==
    IF m.task.st = "pending"
    THEN [m EXCEPT !.task = Done(m.task, "cancelled")]
    ELSE Finish(m, "cancelled")

----------------------------------------------------------------------------
(* The state a step of run t works on, and the state it leaves *)

Machine(t) ==
    [ ds |-> driver_states, running |-> RUNNING, conns |-> active_connections,
      db |-> db, task |-> tasks[t] ]

\* the callbacks in "ready": a step of run task t, and the wake-up of the
\* start_simulation call that awaits task t
TaskStep(t) == [k |-> "task", t |-> t]
OuterStep(t) == [k |-> "outer", t |-> t]

IsHead(callback) == ready # <<>> /\ Head(ready) = callback

\* the state after a step of run t; scheduled tells whether the step was one
\* of the callbacks in "ready".  A task that is done wakes its awaiter.
Apply(t, m, scheduled) ==
    /\ driver_states' = m.ds
    /\ RUNNING' = m.running
    /\ active_connections' = m.conns
    /\ db' = m.db
    /\ tasks' = [tasks EXCEPT ![t] = m.task]
    /\ ready' = (IF scheduled THEN Tail(ready) ELSE ready)
                    \o (IF m.task.st = "done" THEN <<OuterStep(t)>> ELSE <<>>)
    /\ UNCHANGED <<current_task, csv, background, ret, nCalls, lim, history, config>>

Suspended(t) == tasks[t].st \in {"pending", "send", "sleep"}

\* the tracks a step of run t can still enter
TracksAhead(t) ==
    IF tasks[t].st = "pending"
    THEN SeqToSet(SelectedTracks(FilteredRows(csv, tasks[t].filter), tasks[t].filter))
    ELSE {tasks[t].unique_tracks[i] : i \in (tasks[t].ti + 1)..Len(tasks[t].unique_tracks)}

----------------------------------------------------------------------------
(* Steps of the run tasks *)

\* first step of _run_simulation
TaskBegin(t) ==
    /\ tasks[t].st = "pending" /\ ~tasks[t].cancel
    /\ IsHead(TaskStep(t))
    /\ \E readOk \in BOOLEAN, dbFail \in SUBSET TracksAhead(t), written \in lim.writes :
         \E groups \in GroupChoices(FilteredRows(csv, tasks[t].filter), TracksAhead(t)) :
            \E after \in {Begin(Machine(t), csv, readOk, dbFail, groups, written)} :
                Apply(t, after, TRUE)

\* a send_json completes or raises
WakeFromSend(t) ==
    /\ tasks[t].st = "send" /\ ~tasks[t].cancel
    /\ \E sendOk \in BOOLEAN :
         \E after \in {AfterSend(Machine(t), sendOk)} : Apply(t, after, FALSE)

\* the pacing sleep ends: next row, next track or the end of the run
WakeFromSleep(t) ==
    /\ tasks[t].st = "sleep" /\ ~tasks[t].cancel
    /\ \E dbFail \in SUBSET TracksAhead(t), written \in lim.writes :
         \E groups \in GroupChoices(FilteredRows(csv, tasks[t].filter), TracksAhead(t)) :
            \E after \in {PointLoop(Machine(t), tasks[t].pi + 1, dbFail, groups, written)} :
                Apply(t, after, FALSE)

\* the cancellation requested by stop_simulation reaches the task
Cancelled(t) ==
    /\ Suspended(t) /\ tasks[t].cancel
    /\ IsHead(TaskStep(t))
    /\ \E after \in {Unwind(Machine(t))} : Apply(t, after, TRUE)

\* start_simulation resumes after "await current_task": finally RUNNING = False
OuterFinish(t) ==
    /\ tasks[t].st = "done" /\ tasks[t].outer = "await"
    /\ IsHead(OuterStep(t))
    /\ ready' = Tail(ready)
    /\ RUNNING' = FALSE
    /\ tasks' = [tasks EXCEPT ![t] = Returned]
    /\ UNCHANGED <<driver_states, current_task, active_connections, csv, db,
                   background, ret, nCalls, lim, history, config>>

----------------------------------------------------------------------------
(* Calls from outside the run tasks *)


\* is_running (and api_simulation_status): a read of the flag
is_running == RUNNING

\* api_start_simulation
ApiStartSimulation(driver_id) ==
    /\ IF is_running
       THEN /\ ret' = [call |-> "api_start_simulation",
                       message |-> "Simulation already running"]
            /\ UNCHANGED background
       ELSE /\ Len(background) < lim.queued
            /\ background' = Append(background, driver_id)
            /\ ret' = [call |-> "api_start_simulation", message |-> "simulation started"]
    /\ UNCHANGED <<driver_states, RUNNING, current_task, tasks, active_connections,
                   csv, db, ready, nCalls, lim, history, config>>

\* start_simulation up to "await current_task", run as a background task
StartSimulation(i) ==
    /\ i \in DOMAIN background
    /\ background' = SubSeq(background, 1, i - 1)
                        \o SubSeq(background, i + 1, Len(background))
    /\ IF RUNNING
       THEN /\ ret' = [call |-> "start_simulation", message |-> "already running"]
            /\ UNCHANGED <<RUNNING, current_task, tasks, ready>>
       ELSE /\ Len(tasks) < lim.starts
            /\ RUNNING' = TRUE
            /\ tasks' = Append(tasks, NewTask(background[i]))
            /\ current_task' = Len(tasks) + 1
            /\ ready' = Append(ready, TaskStep(Len(tasks) + 1))
            /\ ret' = [call |-> "start_simulation", message |-> "started"]
    /\ UNCHANGED <<driver_states, active_connections, csv, db, nCalls, lim, history, config>>

\* a stop that wakes the task again on every call
stop_simulation_rewake(running, current, run_tasks, callbacks) ==
    LET cancels == current \in DOMAIN run_tasks /\ run_tasks[current].st # "done"
    IN  [ running |-> FALSE,
          tasks   |-> [t \in DOMAIN run_tasks |->
                         [run_tasks[t] EXCEPT
                             !.cancel = @ \/ (t = current /\ cancels),
                             !.stopSeen = @ \/ run_tasks[t].st # "done"]],
          ready   |-> IF cancels THEN Append(callbacks, TaskStep(current)) ELSE callbacks,
          ret     |-> [call |-> "stop_simulation", message |-> "simulation stopped"] ]

\* stop_simulation: the flag, the run tasks, the scheduled callbacks and the
\* result after the call.  current_task.cancel() marks the task; a task that
\* waits for a send or for its timer is woken to receive the CancelledError,
\* a task that has not run yet receives it at its first step.
stop_simulation(running, current, run_tasks, callbacks) ==
    LET cancels == current \in DOMAIN run_tasks /\ run_tasks[current].st # "done"
        wakes == /\ cancels
                 /\ run_tasks[current].st \in {"send", "sleep"}
                 /\ ~run_tasks[current].cancel
    IN  [ running |-> FALSE,
          tasks   |-> [t \in DOMAIN run_tasks |->
                         [run_tasks[t] EXCEPT
                             !.cancel = @ \/ (t = current /\ cancels),
                             !.stopSeen = @ \/ run_tasks[t].st # "done"]],
          ready   |-> IF wakes THEN Append(callbacks, TaskStep(current)) ELSE callbacks,
          ret     |-> [call |-> "stop_simulation", message |-> "simulation stopped"] ]

\* stop_simulation (and api_stop_simulation, which returns its result)
StopSimulation ==
    LET after == stop_simulation(RUNNING, current_task, tasks, ready)
    IN  /\ RUNNING' = after.running
        /\ tasks' = after.tasks
        /\ ready' = after.ready
        /\ ret' = after.ret
        /\ UNCHANGED <<driver_states, current_task, active_connections, csv, db,
                       background, nCalls, lim, history, config>>

\* ConnectionManager.connect
Connect(websocket) ==
    /\ websocket \in 1..lim.conns
    /\ \A i \in DOMAIN active_connections : active_connections[i] # websocket
    /\ active_connections' = Append(active_connections, websocket)
    /\ UNCHANGED <<driver_states, RUNNING, current_task, tasks, csv, db,
                   background, ready, ret, nCalls, lim, history, config>>

\* ConnectionManager.disconnect, called by the websocket endpoint
Disconnect(websocket) ==
    /\ \E i \in DOMAIN active_connections : active_connections[i] = websocket
    /\ active_connections' = disconnect(active_connections, websocket)
    /\ UNCHANGED <<driver_states, RUNNING, current_task, tasks, csv, db,
                   background, ready, ret, nCalls, lim, history, config>>

----------------------------------------------------------------------------
(* The replay service *)

\* the module globals after import, but for app.config
InitModules ==
    /\ RUNNING = FALSE
    /\ current_task = NoTask
    /\ tasks = <<>>
    /\ active_connections = <<>>
    /\ db = [drivers |-> {}, trips |-> {}, events |-> <<>>, scores |-> <<>>]
    /\ background = <<>>
    /\ ready = <<>>
    /\ ret = [call |-> "none"]
    /\ nCalls = 0
    /\ history = <<>>

\* config.py:23-26 with no SCORE_* variable in the environment
DefaultConfig ==
    [ SCORE_OVERSPEED_WEIGHT |-> 2, SCORE_HARSH_BRAKE_WEIGHT |-> 3,
      SCORE_IDLE_WEIGHT |-> 1, SCORE_BASE |-> 100 ]

InitCommon ==
    /\ InitModules
    /\ config = DefaultConfig

Init ==
    /\ InitCommon
    /\ driver_states = <<>>
    /\ csv = TwoTracks
    /\ lim = [starts |-> MaxStarts, queued |-> MaxQueued, conns |-> MaxConns,
              filters |-> {NoFilter, DriverId(1)}, writes |-> Healthy]

Next ==
    \/ \E t \in DOMAIN tasks : TaskBegin(t)
    \/ \E t \in DOMAIN tasks : WakeFromSend(t)
    \/ \E t \in DOMAIN tasks : WakeFromSleep(t)
    \/ \E t \in DOMAIN tasks : Cancelled(t)
    \/ \E t \in DOMAIN tasks : OuterFinish(t)
    \/ \E f \in lim.filters : ApiStartSimulation(f)
    \/ \E i \in DOMAIN background : StartSimulation(i)
    \/ StopSimulation
    \/ \E c \in 1..lim.conns : Connect(c)
    \/ \E c \in 1..lim.conns : Disconnect(c)

Spec == Init /\ [][Next]_vars

\* The same service with more starts and no websocket client, on the
\* one-track file and without a driver filter: the interleavings of start,
\* stop and the end of a run.
InitRace ==
    /\ InitCommon
    /\ driver_states = <<>>
    /\ csv = OneTrack
    /\ lim = [starts |-> RaceStarts, queued |-> 1, conns |-> 0, filters |-> {NoFilter}, writes |-> Healthy]

NextRace ==
    \/ \E t \in DOMAIN tasks : TaskBegin(t)
    \/ \E t \in DOMAIN tasks : WakeFromSleep(t)
    \/ \E t \in DOMAIN tasks : Cancelled(t)
    \/ \E t \in DOMAIN tasks : OuterFinish(t)
    \/ \E f \in lim.filters : ApiStartSimulation(f)
    \/ \E i \in DOMAIN background : StartSimulation(i)
    \/ StopSimulation

SpecRace == InitRace /\ [][NextRace]_vars

\* Runs that replay the two tracks again, after runs that completed or were
\* stopped, with no websocket client.
InitRerun ==
    /\ InitCommon
    /\ driver_states = <<>>
    /\ csv = TwoTracks
    /\ lim = [starts |-> RerunStarts, queued |-> 1, conns |-> 0,
              filters |-> {NoFilter}, writes |-> Healthy]

SpecRerun == InitRerun /\ [][NextRace]_vars

\* The start/stop interleavings with one websocket client connected or not.
InitHub ==
    /\ InitCommon
    /\ driver_states = <<>>
    /\ csv = OneTrack
    /\ lim = [starts |-> HubStarts, queued |-> 1, conns |-> 1, filters |-> {NoFilter}, writes |-> Healthy]

SpecHub == InitHub /\ [][Next]_vars

\* One run on the one-track file with several websocket clients: what a
\* broadcast does with each connection.
InitPublish ==
    /\ InitCommon
    /\ driver_states = <<>>
    /\ csv = OneTrack
    /\ lim = [starts |-> 1, queued |-> 1, conns |-> HubConns, filters |-> {NoFilter}, writes |-> Healthy]

SpecPublish == InitPublish /\ [][Next]_vars

\* One run on the two-track file with a database that may raise at any
\* write while a sample is persisted.
InitFaults ==
    /\ InitCommon
    /\ driver_states = <<>>
    /\ csv = TwoTracks
    /\ lim = [starts |-> 1, queued |-> 1, conns |-> 1, filters |-> {NoFilter},
              writes |-> Writes]

SpecFaults == InitFaults /\ [][Next]_vars

\* Starts with the filter of track 1 and with driver filters that map to no
\* track of the two-track file:
\* "driver_3" names a track the file does not have, "driver_x" does not
\* parse (ValueError), "driver" has no second part (IndexError).
UnknownFilters == {DriverId(3), <<"driver", "x">>, <<"driver">>}

InitFilter ==
    /\ InitCommon
    /\ driver_states = <<>>
    /\ csv = TwoTracks
    /\ lim = [starts |-> FilterStarts, queued |-> 1, conns |-> 1,
              filters |-> UnknownFilters \cup {DriverId(1)}, writes |-> Healthy]

SpecFilter == InitFilter /\ [][Next]_vars

\* Runs over the two tracks that follow each other in time, all drivers or
\* driver 2 only.
InitConvoy ==
    /\ InitCommon
    /\ driver_states = <<>>
    /\ csv = Convoy
    /\ lim = [starts |-> ConvoyStarts, queued |-> 1, conns |-> 1,
              filters |-> {NoFilter, DriverId(2)}, writes |-> Healthy]

SpecConvoy == InitConvoy /\ [][Next]_vars

\* Runs without a driver filter on a file of four tracks or of two.
InitTracks ==
    /\ InitCommon
    /\ driver_states = <<>>
    /\ csv \in {FourTracks, TwoTracks}
    /\ lim = [starts |-> MaxStarts, queued |-> MaxQueued, conns |-> MaxConns,
              filters |-> {NoFilter}, writes |-> Healthy]

SpecTracks == InitTracks /\ [][Next]_vars

\* One run on the file with a row that is not a number.
InitRows ==
    /\ InitCommon
    /\ driver_states = <<>>
    /\ csv = BadRow
    /\ lim = [starts |-> 1, queued |-> 1, conns |-> 1, filters |-> {NoFilter},
              writes |-> Healthy]

SpecRows == InitRows /\ [][Next]_vars

\* The service on the one-track file with one websocket client, where every
\* callback the event loop holds is run, every send_json returns or raises
\* and every pacing sleep ends.
InitLive ==
    /\ InitCommon
    /\ driver_states = <<>>
    /\ csv = OneTrack
    /\ lim = [starts |-> LiveStarts, queued |-> 1, conns |-> 1, filters |-> {NoFilter}, writes |-> Healthy]

\* a step of run t or of the start_simulation call that awaits it
RunStep(t) ==
    /\ t \in DOMAIN tasks
    /\ \/ TaskBegin(t)
       \/ WakeFromSend(t)
       \/ WakeFromSleep(t)
       \/ Cancelled(t)
       \/ OuterFinish(t)

Fairness == \A t \in 1..LiveStarts : WF_vars(RunStep(t))

SpecLive == InitLive /\ [][Next]_vars /\ Fairness

----------------------------------------------------------------------------
(* The detector called directly, as the unit tests call it: detect_events,
   calculate_risk_score, get_driver_state and reset_driver_state with
   arbitrary samples.  A driver starts unseen or with the state left by Burst
   samples that were each overspeeding and harsh braking. *)

\* a driver identifier that never gets a state
UnseenDriver == <<"new", "driver">>

Times == {0, 30}
Speeds == {0, 60}
Accelerations == {0 - 10, 0, 10}

\* driver_states after n samples of a driver at time 0, each at 60 km/h and
\* -10 km/h/s
RECURSIVE Observed(_, _)
Observed(driver_id, n) ==
    IF n = 0 THEN <<>>
    ELSE detect_events(Observed(driver_id, n - 1), driver_id, 0, 0, 60, 0 - 10).states

\* what is known of a driver's samples after one more detect_events call:
\* the timestamp of the last sample, whether all samples so far came in
\* non-decreasing time order, the timestamp of the last idling event, and the
\* timestamps of the zero-speed samples since the last sample that moved
Sampled(h, driver_id, timestamp, speed_kph, events) ==
    LET idled == \E i \in DOMAIN events : events[i].event_type = "idling"
    IN  IF driver_id \notin DOMAIN h
        THEN [ last    |-> timestamp,
               ordered |-> TRUE,
               idling  |-> IF idled THEN Some(timestamp) ELSE None,
               still   |-> IF speed_kph = 0 THEN {timestamp} ELSE {} ]
        ELSE [ last    |-> timestamp,
               ordered |-> h[driver_id].ordered /\ h[driver_id].last <= timestamp,
               idling  |-> IF idled THEN Some(timestamp) ELSE h[driver_id].idling,
               still   |-> IF speed_kph = 0 THEN h[driver_id].still \cup {timestamp}
                           ELSE {} ]

DetectEventsCall(driver_id, timestamp, speed_kph, acceleration_kph_s) ==
    /\ nCalls < lim.calls
    /\ nCalls' = nCalls + 1
    /\ LET detected == detect_events(driver_states, driver_id, timestamp, 0,
                                     speed_kph, acceleration_kph_s)
       IN  /\ driver_states' = detected.states
           /\ ret' = [call |-> "detect_events", driver_id |-> driver_id,
                      timestamp |-> timestamp, speed_kph |-> speed_kph,
                      acceleration_kph_s |-> acceleration_kph_s,
                      events |-> detected.events]
           /\ history' = Put(history, driver_id,
                             Sampled(history, driver_id, timestamp, speed_kph,
                                     detected.events))
    /\ UNCHANGED <<RUNNING, current_task, tasks, active_connections, csv, db,
                   background, ready, lim, config>>

\* a score lookup that drops the state it has read
ScoreCall_forgets(driver_id) ==
    /\ ret' = [call |-> "calculate_risk_score", driver_id |-> driver_id,
               value |-> calculate_risk_score(driver_states, driver_id)]
    /\ driver_states' = reset_driver_state(driver_states, driver_id)
    /\ UNCHANGED <<RUNNING, current_task, tasks, active_connections,
                   csv, db, background, ready, nCalls, lim, history, config>>

ScoreCall(driver_id) ==
    /\ ret' = [call |-> "calculate_risk_score", driver_id |-> driver_id,
               value |-> calculate_risk_score(driver_states, driver_id)]
    /\ UNCHANGED <<driver_states, RUNNING, current_task, tasks, active_connections,
                   csv, db, background, ready, nCalls, lim, history, config>>

\* a lookup that creates the state it does not find
GetStateCall_creates(driver_id) ==
    /\ ret' = [call |-> "get_driver_state", driver_id |-> driver_id,
               value |-> get_driver_state(driver_states, driver_id)]
    /\ driver_states' = IF driver_id \in DOMAIN driver_states THEN driver_states
                        ELSE Put(driver_states, driver_id, NewDriverState(0, 0))
    /\ UNCHANGED <<RUNNING, current_task, tasks, active_connections,
                   csv, db, background, ready, nCalls, lim, history, config>>

GetStateCall(driver_id) ==
    /\ ret' = [call |-> "get_driver_state", driver_id |-> driver_id,
               value |-> get_driver_state(driver_states, driver_id)]
    /\ UNCHANGED <<driver_states, RUNNING, current_task, tasks, active_connections,
                   csv, db, background, ready, nCalls, lim, history, config>>

ResetCall(driver_id) ==
    /\ driver_states' = reset_driver_state(driver_states, driver_id)
    /\ ret' = [call |-> "reset_driver_state", driver_id |-> driver_id]
    /\ UNCHANGED <<RUNNING, current_task, tasks, active_connections, csv, db,
                   background, ready, nCalls, lim, history, config>>

InitDetect ==
    /\ InitCommon
    /\ \E seeded \in SUBSET Drivers :
          driver_states = [d \in seeded |-> Observed(d, Burst)[d]]
    /\ csv = <<>>
    /\ lim = [starts |-> 0, queued |-> 0, conns |-> 0, filters |-> {}, writes |-> Healthy,
              calls |-> MaxCalls]

NextDetect ==
    \/ \E d \in Drivers, ts \in Times, v \in Speeds, a \in Accelerations :
          DetectEventsCall(d, ts, v, a)
    \/ \E d \in Drivers \cup {UnseenDriver} : ScoreCall(d)
    \/ \E d \in Drivers \cup {UnseenDriver} : GetStateCall(d)
    \/ \E d \in Drivers \cup {UnseenDriver} : ResetCall(d)

SpecDetect == InitDetect /\ [][NextDetect]_vars

\* The two kinematics functions called with times that go forward, stand
\* still and go backward.
KinTimes == {0, 1, 2, 3}
KinSpeeds == {0, 50, 60}
KinPositions == {0, 50}

AccelerationCall(prev_speed_kph, prev_ts, speed_kph, ts) ==
    /\ ret' = [call |-> "compute_acceleration",
               prev_speed_kph |-> prev_speed_kph, prev_ts |-> prev_ts,
               speed_kph |-> speed_kph, ts |-> ts,
               value |-> compute_acceleration(prev_speed_kph, prev_ts, speed_kph, ts)]
    /\ UNCHANGED <<driver_states, RUNNING, current_task, tasks, active_connections,
                   csv, db, background, ready, nCalls, lim, history, config>>

SpeedCall(pos1, time1, pos2, time2) ==
    /\ ret' = [call |-> "calculate_speed_kph",
               pos1 |-> pos1, time1 |-> time1, pos2 |-> pos2, time2 |-> time2,
               value |-> calculate_speed_kph(pos1, time1, pos2, time2)]
    /\ UNCHANGED <<driver_states, RUNNING, current_task, tasks, active_connections,
                   csv, db, background, ready, nCalls, lim, history, config>>

InitKinematics ==
    /\ InitCommon
    /\ driver_states = <<>>
    /\ csv = <<>>
    /\ lim = [starts |-> 0, queued |-> 0, conns |-> 0, filters |-> {},
              writes |-> Healthy, calls |-> 0]

NextKinematics ==
    \/ \E v1 \in KinSpeeds, t1 \in KinTimes, v2 \in KinSpeeds, t2 \in KinTimes :
          AccelerationCall(v1, t1, v2, t2)
    \/ \E p1 \in KinPositions, t1 \in KinTimes, p2 \in KinPositions, t2 \in KinTimes :
          SpeedCall(p1, t1, p2, t2)

SpecKinematics == InitKinematics /\ [][NextKinematics]_vars

\* The detector called for one driver that stands still or moves, at times
\* a quarter, a half, ... of a minute apart, in any order: the idling rule.
IdleTimes == {0, 15, 30, 45, 60}

InitIdle ==
    /\ InitCommon
    /\ driver_states = <<>>
    /\ csv = <<>>
    /\ lim = [starts |-> 0, queued |-> 0, conns |-> 0, filters |-> {}, writes |-> Healthy,
              calls |-> IdleCalls]

NextIdle ==
    \/ \E ts \in IdleTimes, v \in Speeds : DetectEventsCall(DriverId(1), ts, v, 0)
    \/ GetStateCall(DriverId(1))
    \/ ResetCall(DriverId(1))

SpecIdle == InitIdle /\ [][NextIdle]_vars

\* The service on the one-track file, with score lookups and resets of the
\* driver's state between the steps of the runs.
InitLife ==
    /\ InitCommon
    /\ driver_states = <<>>
    /\ csv = OneTrack
    /\ lim = [starts |-> MaxStarts, queued |-> MaxQueued, conns |-> MaxConns,
              filters |-> {NoFilter}, writes |-> Healthy, calls |-> 0]

NextLife ==
    \/ Next
    \/ ScoreCall(DriverId(1))
    \/ ResetCall(DriverId(1))

SpecLife == InitLife /\ [][NextLife]_vars

\* The detector called with speeds and accelerations at and next to the
\* thresholds of config.py: the three threshold rules, and all four together.
RuleSpeeds == {0, OVERSPEED_KPH, OVERSPEED_KPH + 1}
RuleAccelerations ==
    {HARSH_BRAKE_KPH_S - 1, HARSH_BRAKE_KPH_S, 0,
     SUDDEN_ACCEL_KPH_S, SUDDEN_ACCEL_KPH_S + 1}

InitRules ==
    /\ InitCommon
    /\ driver_states = <<>>
    /\ csv = <<>>
    /\ lim = [starts |-> 0, queued |-> 0, conns |-> 0, filters |-> {}, writes |-> Healthy,
              calls |-> RuleCalls]

NextRules ==
    \/ \E ts \in Times, v \in RuleSpeeds, a \in RuleAccelerations :
          DetectEventsCall(DriverId(1), ts, v, a)
    \/ ScoreCall(DriverId(1))

SpecRules == InitRules /\ [][NextRules]_vars

\* The replay service, and beside it calls of the detector, the score, the
\* lookup and the reset for the two drivers and for one that is never
\* observed.
InitStore ==
    /\ InitCommon
    /\ driver_states = <<>>
    /\ csv = OneTrack
    /\ lim = [starts |-> 1, queued |-> 1, conns |-> 1,
              filters |-> {NoFilter}, writes |-> Healthy, calls |-> StoreCalls]

NextStore ==
    \/ Next
    \/ \E d \in Drivers, v \in Speeds : DetectEventsCall(d, 0, v, 0)
    \/ \E d \in Drivers \cup {UnseenDriver} : ScoreCall(d)
    \/ \E d \in Drivers \cup {UnseenDriver} : GetStateCall(d)
    \/ \E d \in Drivers : ResetCall(d)

SpecStore == InitStore /\ [][NextStore]_vars

\* The detector and the score in processes started with SCORE_* variables
\* in the environment: the default values, a larger overspeed weight, a
\* smaller base.
Configs ==
    { DefaultConfig,
      [DefaultConfig EXCEPT !.SCORE_OVERSPEED_WEIGHT = 5],
      [DefaultConfig EXCEPT !.SCORE_BASE = 50] }

InitConfig ==
    /\ InitModules
    /\ config \in Configs
    /\ driver_states = <<>>
    /\ csv = <<>>
    /\ lim = [starts |-> 0, queued |-> 0, conns |-> 0, filters |-> {},
              writes |-> Healthy, calls |-> ConfigCalls]

NextConfig ==
    \/ \E ts \in Times, v \in Speeds, a \in Accelerations :
          DetectEventsCall(DriverId(1), ts, v, a)
    \/ ScoreCall(DriverId(1))

SpecConfig == InitConfig /\ [][NextConfig]_vars

----------------------------------------------------------------------------
(* Properties of the detector and the score *)

EventKinds(events) == [i \in DOMAIN events |-> events[i].event_type]

\* C1: after any sequence of detect_events, reset_driver_state and score
\* calls, calculate_risk_score is an integer in [0,100] for every driver
\* identifier, seen or unseen, and so is every value a score call returned;
\* it is never below 0 however many events have been counted.
C1_ScoreInRange ==
    /\ \A d \in Drivers \cup {UnseenDriver} :
          calculate_risk_score(driver_states, d) \in 0..100
    /\ ret.call = "calculate_risk_score" => ret.value \in 0..100

\* a score call has returned 0 for a driver whose penalty exceeds 100
C1_Witness ==
    /\ ret.call = "calculate_risk_score"
    /\ ret.driver_id \in DOMAIN driver_states
    /\ Penalty(driver_states[ret.driver_id]) > 100
    /\ ret.value = 0

\* the score of a driver state, written out from the documented formula
DocumentedScore(state) ==
    Max(0, 100 - (2 * state.overspeed_count + 3 * state.harsh_brake_count
                    + 1 * state.idle_count))

C2_ScoreFormula ==
    \A d \in DOMAIN driver_states :
       /\ calculate_risk_score(driver_states, d) = DocumentedScore(driver_states[d])
       /\ \A n \in 0..(MaxCalls + 1) :
             calculate_risk_score(
                 Put(driver_states, d, [driver_states[d] EXCEPT !.sudden_accel_count = n]),
                 d) = calculate_risk_score(driver_states, d)

C2_SuddenAccelOnly ==
    (/\ nCalls' = nCalls + 1
     /\ ret'.call = "detect_events"
     /\ EventKinds(ret'.events) = <<"sudden_acceleration">>)
    => calculate_risk_score(driver_states', ret'.driver_id)
          = calculate_risk_score(driver_states, ret'.driver_id)

\* C2: for every reachable driver state the score is
\* max(0, 100 - (2*overspeed + 3*harsh_brake + 1*idle)); the sudden-acceleration
\* count has no effect on it (states that differ only in that count score the
\* same), and a detect_events call that fires only sudden_acceleration leaves
\* the driver's score unchanged.
C2_ScoreIgnoresSuddenAccel == [](C2_ScoreFormula) /\ [][C2_SuddenAccelOnly]_vars

\* a call that fired only sudden_acceleration on a driver that has a penalty
C2_Witness ==
    /\ ret.call = "detect_events"
    /\ EventKinds(ret.events) = <<"sudden_acceleration">>
    /\ driver_states[ret.driver_id].sudden_accel_count >= 1
    /\ calculate_risk_score(driver_states, ret.driver_id) \in 1..99

----------------------------------------------------------------------------
(* Properties of the run control *)

\* run t has been created and has not finished unwinding
Active(t) == tasks[t].st # "done"

\* run t is inside its loop: suspended in a send or in the pacing sleep, with
\* no cancellation on its way
InLoop(t) == tasks[t].st \in {"send", "sleep"} /\ ~tasks[t].cancel

\* this step is one in which run t begins to process a row
StartsPoint(t) ==
    /\ tasks'[t].st \in {"send", "sleep"}
    /\ <<tasks'[t].ti, tasks'[t].pi>> # <<tasks[t].ti, tasks[t].pi>>

\* the messages of run t's current row that were handed to broadcast, all of
\* them or none of them
PointClosed(t) ==
    \/ tasks[t].log = <<>>
    \/ Len(tasks[t].log) = 2 + Len(Val(tasks[t].result).events)

\* C3: at most one replay run loop is active at any time, under every
\* interleaving of start, stop and run completion.
C3_AtMostOneLoop == Cardinality({t \in DOMAIN tasks : InLoop(t)}) <= 1

\* C4: once stop_simulation has been called during a run, that run begins to
\* process no further row and enters no further track, and its steps leave
\* the driver states as they are.
C4_NoPointAfterStop ==
    [][\A t \in DOMAIN tasks :
          (tasks[t].stopSeen /\ tasks'[t] # tasks[t])
              => (~StartsPoint(t) /\ driver_states' = driver_states)]_vars

\* every run that was started is done at some later time, start_simulation
\* has returned and is_running() is false
C5_Returns ==
    \A t \in 1..LiveStarts :
        (t \in DOMAIN tasks) ~> (t \in DOMAIN tasks /\ tasks[t] = Returned /\ ~is_running)

\* a start_simulation call that finds is_running() false creates a run
C5_StartAccepted ==
    [][(~is_running /\ Len(background') < Len(background))
          => (is_running' /\ Len(tasks') = Len(tasks) + 1
                /\ current_task' = Len(tasks'))]_vars

\* C5: every started run eventually returns the replayer to idle, whether
\* its tracks are exhausted, it is cancelled or it fails, provided every send
\* and every pacing sleep completes; after that a new start is accepted.
C5_EveryRunReturns == C5_Returns /\ C5_StartAccepted

\* a second run was accepted and cancelled after the first one had returned,
\* and the replayer is idle
C5_Witness ==
    /\ Len(tasks) = 2
    /\ tasks[1] = Returned
    /\ tasks[2].st = "done" /\ tasks[2].end = "cancelled"
    /\ ~is_running

\* C6 as stated: is_running() is true if and only if a run loop has been
\* started and has not yet finished unwinding.
C6_RunningIffActive == is_running <=> \E t \in DOMAIN tasks : Active(t)

\* C6, amended: when is_running() is true, the run started last has not
\* finished unwinding and no cancellation of it is on its way.
C6_RunningImpliesActive ==
    is_running => /\ current_task \in DOMAIN tasks
                  /\ Active(current_task)
                  /\ ~tasks[current_task].cancel

C6_Witness ==
    /\ is_running
    /\ current_task \in DOMAIN tasks
    /\ tasks[current_task].st = "send"
    /\ tasks[current_task].pi = 2

\* what one call of stop_simulation and a second call right after it leave
C7_Once == stop_simulation(RUNNING, current_task, tasks, ready)
C7_Twice == stop_simulation(C7_Once.running, current_task, C7_Once.tasks, C7_Once.ready)

\* C7: stop_simulation can be called in every state and returns the stopped
\* result in that one step, without a step of the run loop; is_running() is
\* false when it returns, as it is before any start; a second call leaves
\* everything as the first call left it.
C7_StopIdempotent ==
    /\ [](/\ ENABLED StopSimulation
          /\ C7_Once.running = FALSE
          /\ C7_Once.ret.message = "simulation stopped"
          /\ C7_Twice = C7_Once
          /\ (tasks = <<>> => ~is_running))
    /\ [][StopSimulation =>
            /\ ~is_running'
            /\ ret' = [call |-> "stop_simulation", message |-> "simulation stopped"]
            /\ \A t \in DOMAIN tasks : tasks'[t].st = tasks[t].st]_vars

\* stop_simulation has returned while the cancelled run is still suspended
C7_Witness ==
    /\ ret.call = "stop_simulation"
    /\ ~is_running
    /\ \E t \in DOMAIN tasks : tasks[t].cancel /\ tasks[t].st = "sleep"

----------------------------------------------------------------------------
(* Properties of what a run publishes *)

\* the messages of run t's current row so far: telemetry, then score, then
\* the detected events in their order
C8_LogInOrder(t) ==
    LET log == tasks[t].log
    IN  IF tasks[t].result = None THEN log = <<>>
        ELSE LET detection_result == Val(tasks[t].result)
             IN  /\ Len(log) <= 2 + Len(detection_result.events)
                 /\ \A i \in DOMAIN log :
                      /\ (i = 1) => (log[i].type = "telemetry")
                      /\ (i = 2) => /\ log[i].type = "score"
                                    /\ log[i].payload.risk_score
                                          = detection_result.risk_score
                      /\ (i > 2) => /\ log[i].type = "event"
                                    /\ log[i].payload = detection_result.events[i - 2]

\* run u has handed over some but not all messages of the row it is at
OpenPoint(u) ==
    /\ tasks[u].st = "send" /\ ~tasks[u].cancel
    /\ tasks[u].todo # <<>>

\* C8: the messages of a row are handed to the broadcast hub in the order
\* telemetry, score, then one event message per detected event, and no
\* message of a row is handed over while messages of a row begun earlier
\* are still to come.
C8_PublishOrder ==
    /\ [](\A t \in DOMAIN tasks : C8_LogInOrder(t))
    /\ [][\A t \in DOMAIN tasks :
            (StartsPoint(t) /\ tasks'[t].log # <<>>) =>
                /\ PointClosed(t)
                /\ \A u \in DOMAIN tasks \ {t} : ~OpenPoint(u)]_vars

\* the rows of the track run t is in are in non-decreasing time order
C9_GroupSorted(t) ==
    \A i, j \in DOMAIN tasks[t].group :
        i < j => tasks[t].group[i].time <= tasks[t].group[j].time

\* every message of run t's log is about the row and the track run t is at
C9_LogOfCurrentRow(t) ==
    \A i \in DOMAIN tasks[t].log :
        LET message == tasks[t].log[i]
            track_id == tasks[t].unique_tracks[tasks[t].ti]
            row == tasks[t].group[tasks[t].pi]
        IN  /\ message.type = "telemetry" =>
                /\ message.payload.track_id = str(track_id)
                /\ message.payload.timestamp = isoformat(row.time)
            /\ message.type = "score" =>
                message.payload.driver_id = DriverId(track_id)
            /\ message.type = "event" =>
                message.payload.timestamp = isoformat(row.time)

\* run t begins a row only when it is at no other row, and the row is the
\* next one of the same track, not earlier in time, or the first row of a
\* later track
C9_NextRow(t) ==
    StartsPoint(t) =>
        /\ tasks[t].st \in {"pending", "sleep"}
        /\ PointClosed(t)
        /\ IF tasks'[t].ti = tasks[t].ti
           THEN /\ tasks'[t].pi = tasks[t].pi + 1
                /\ tasks'[t].group = tasks[t].group
                /\ tasks[t].group[tasks[t].pi].time
                      <= tasks[t].group[tasks'[t].pi].time
           ELSE /\ tasks'[t].ti > tasks[t].ti
                /\ tasks'[t].pi = 1

\* C9: within a run the rows of a track are processed and published in
\* non-decreasing time order, one after the other, and every message of a
\* track is published before any message of the next track.
C9_Sequential ==
    /\ [](\A t \in DOMAIN tasks : C9_GroupSorted(t) /\ C9_LogOfCurrentRow(t))
    /\ [][\A t \in DOMAIN tasks : C9_NextRow(t)]_vars

\* a run publishes the second row of its second track
C9_Witness ==
    \E t \in DOMAIN tasks :
        /\ tasks[t].ti = 2 /\ tasks[t].pi = 2
        /\ tasks[t].st = "sleep"
        /\ tasks[t].log # <<>>

\* run t was started with the filter that selects track 1 of the two tracks
C10_Filtered(t) == tasks[t].filter = DriverId(1)

\* a filtered run selects track 1 only, and its messages are those of track 1
\* and of its driver
C10_OnlySelected(t) ==
    C10_Filtered(t) =>
        /\ tasks[t].unique_tracks \in {<<>>, <<1>>}
        /\ tasks[t].result # None => Val(tasks[t].result).driver_id = DriverId(1)
        /\ \A i \in DOMAIN tasks[t].log :
              LET message == tasks[t].log[i]
              IN  /\ message.type = "telemetry" =>
                      /\ message.payload.track_id = str(1)
                      /\ message.payload.driver_id = DriverId(1)
                  /\ message.type = "score" =>
                      message.payload.driver_id = DriverId(1)
                  /\ message.type = "event" =>
                      \E k \in DOMAIN Val(tasks[t].result).events :
                          message.payload = Val(tasks[t].result).events[k]

\* a step of a filtered run neither creates nor changes the state of the
\* driver of track 2
C10_OtherUntouched(t) ==
    (C10_Filtered(t) /\ tasks'[t] # tasks[t]) =>
        /\ (DriverId(2) \in DOMAIN driver_states') = (DriverId(2) \in DOMAIN driver_states)
        /\ DriverId(2) \in DOMAIN driver_states =>
              driver_states'[DriverId(2)] = driver_states[DriverId(2)]

\* C10: with a driver filter the run selects exactly the track of that
\* driver: no message of the run refers to the other track or its driver,
\* and the run never creates or changes the other driver's state.
C10_FilterSelectsOne ==
    /\ [](\A t \in DOMAIN tasks : C10_OnlySelected(t))
    /\ [][\A t \in DOMAIN tasks : C10_OtherUntouched(t)]_vars

\* a filtered run has published a row and the other driver has no state
C10_Witness ==
    \E t \in DOMAIN tasks :
        /\ C10_Filtered(t)
        /\ tasks[t].st = "sleep" /\ tasks[t].log # <<>>
        /\ DriverId(1) \in DOMAIN driver_states
        /\ DriverId(2) \notin DOMAIN driver_states

----------------------------------------------------------------------------
(* Properties of the detection rules.  A step of detect_events is a step
   that counts one more direct call; ret' holds its arguments and events. *)

DetectStep == nCalls' = nCalls + 1 /\ ret'.call = "detect_events"

\* the events of one kind among the events a call returned
OfKind(events, kind) == SelectSeq(events, LAMBDA e : e.event_type = kind)

\* the driver's state before the step, a fresh one when it has none
StateBefore(driver_id) ==
    IF driver_id \in DOMAIN driver_states THEN driver_states[driver_id]
    ELSE [ current_idle_start_ts |-> None, overspeed_count |-> 0,
           harsh_brake_count |-> 0, sudden_accel_count |-> 0, idle_count |-> 0 ]

\* the idling rule on a step with a zero-speed sample
C11_StillSample ==
    LET d == ret'.driver_id
        ts == ret'.timestamp
        before == StateBefore(d)
        after == driver_states'[d]
        idlings == OfKind(ret'.events, "idling")
    IN  IF before.current_idle_start_ts = None
        THEN /\ after.current_idle_start_ts = Some(ts)
             /\ idlings = <<>>
             /\ after.idle_count = before.idle_count
        ELSE LET s == Val(before.current_idle_start_ts)
             IN  IF ts - s >= IDLE_SECONDS_THRESHOLD
                 THEN /\ Len(idlings) = 1
                      /\ idlings[1].meta = [idle_duration_seconds |-> ts - s,
                                            threshold |-> IDLE_SECONDS_THRESHOLD]
                      /\ after.idle_count = before.idle_count + 1
                      /\ after.current_idle_start_ts = None
                 ELSE /\ idlings = <<>>
                      /\ after.idle_count = before.idle_count
                      /\ after.current_idle_start_ts = Some(s)

\* C11: a zero-speed sample with no idle episode open opens one at its
\* timestamp and emits no idling event; with an episode open since s it emits
\* exactly one idling event (elapsed time and threshold in the metadata),
\* adds one to the idle counter and closes the episode when
\* timestamp - s >= IDLE_SECONDS_THRESHOLD, and otherwise emits none and
\* leaves the episode open since s.
C11_IdlingRule ==
    [][(DetectStep /\ ret'.speed_kph = 0) => C11_StillSample]_vars

\* an idling event for an episode that lasted longer than the threshold
C11_Witness ==
    /\ ret.call = "detect_events"
    /\ ret.speed_kph = 0
    /\ Len(OfKind(ret.events, "idling")) = 1
    /\ OfKind(ret.events, "idling")[1].meta.idle_duration_seconds = 45
    /\ driver_states[ret.driver_id].idle_count = 1
    /\ driver_states[ret.driver_id].current_idle_start_ts = None

\* C12: when a driver's samples come in non-decreasing time order, two idling
\* events of the driver are at least IDLE_SECONDS_THRESHOLD apart, and the
\* zero-speed sample right after an idling event emits no idling event.
C12_IdlingOncePerWindow ==
    [][DetectStep =>
         LET d == ret'.driver_id
             idled == OfKind(ret'.events, "idling") # <<>>
         IN  /\ (/\ idled
                 /\ d \in DOMAIN history
                 /\ history'[d].ordered
                 /\ history[d].idling # None)
                => ret'.timestamp - Val(history[d].idling) >= IDLE_SECONDS_THRESHOLD
             /\ (/\ ret.call = "detect_events"
                 /\ ret.driver_id = d
                 /\ OfKind(ret.events, "idling") # <<>>
                 /\ ret'.speed_kph = 0)
                => ~idled]_vars

\* a driver observed in time order has idled twice
C12_Witness ==
    /\ ret.call = "detect_events"
    /\ OfKind(ret.events, "idling") # <<>>
    /\ history[ret.driver_id].ordered
    /\ driver_states[ret.driver_id].idle_count = 2

\* C13: a sample with speed > 0 closes the open idle episode, emits no idling
\* event and leaves the idle counter as it is; so the episode of an idling
\* event began at a zero-speed sample after which no sample had speed > 0.
C13_MovingClosesEpisode ==
    [][DetectStep =>
         LET d == ret'.driver_id
             idlings == OfKind(ret'.events, "idling")
         IN  /\ ret'.speed_kph > 0 =>
                  /\ driver_states'[d].current_idle_start_ts = None
                  /\ idlings = <<>>
                  /\ driver_states'[d].idle_count = StateBefore(d).idle_count
             /\ idlings # <<>> =>
                  /\ d \in DOMAIN history
                  /\ (ret'.timestamp - idlings[1].meta.idle_duration_seconds)
                        \in history[d].still]_vars

\* a moving sample has closed an episode that had been open for the threshold
C13_Witness ==
    /\ ret.call = "detect_events"
    /\ ret.speed_kph > 0
    /\ ret.timestamp >= IDLE_SECONDS_THRESHOLD
    /\ history[ret.driver_id].ordered
    /\ driver_states[ret.driver_id].idle_count = 0
    /\ driver_states[ret.driver_id].current_idle_start_ts = None
    /\ nCalls >= 3

\* one rule of detect_events on a step: it fires exactly when its condition
\* holds, then with one event of its kind that carries the threshold and one
\* more in its counter, and otherwise with no event and the counter as it was
RuleOnStep(holds, kind, threshold, counter) ==
    LET d == ret'.driver_id
        found == OfKind(ret'.events, kind)
    IN  IF holds
        THEN /\ Len(found) = 1
             /\ found[1].meta = [threshold |-> threshold]
             /\ driver_states'[d][counter] = StateBefore(d)[counter] + 1
        ELSE /\ found = <<>>
             /\ driver_states'[d][counter] = StateBefore(d)[counter]

\* C14: overspeeding fires iff speed > OVERSPEED_KPH (not at the threshold):
\* exactly one overspeeding event with the threshold in its metadata and the
\* overspeed counter one higher; otherwise no such event, counter unchanged.
C14_Overspeeding ==
    [][DetectStep =>
         RuleOnStep(ret'.speed_kph > OVERSPEED_KPH, "overspeeding",
                    OVERSPEED_KPH, "overspeed_count")]_vars

\* overspeeding has fired once, and the following sample at the threshold
\* fired nothing
C14_Witness ==
    /\ ret.call = "detect_events"
    /\ ret.speed_kph = OVERSPEED_KPH
    /\ ret.events = <<>>
    /\ driver_states[ret.driver_id].overspeed_count = 1

\* C15: harsh braking fires iff acceleration < HARSH_BRAKE_KPH_S (not at the
\* threshold): exactly one harsh_braking event with the threshold and the
\* harsh-brake counter one higher; otherwise none, counter unchanged.
C15_HarshBraking ==
    [][DetectStep =>
         RuleOnStep(ret'.acceleration_kph_s < HARSH_BRAKE_KPH_S, "harsh_braking",
                    HARSH_BRAKE_KPH_S, "harsh_brake_count")]_vars

\* harsh braking has fired once, and the following sample at the threshold
\* fired nothing
C15_Witness ==
    /\ ret.call = "detect_events"
    /\ ret.acceleration_kph_s = HARSH_BRAKE_KPH_S
    /\ OfKind(ret.events, "harsh_braking") = <<>>
    /\ driver_states[ret.driver_id].harsh_brake_count = 1

\* C16: sudden acceleration fires iff acceleration > SUDDEN_ACCEL_KPH_S (not
\* at the threshold): exactly one sudden_acceleration event with the threshold
\* and the sudden-accel counter one higher; when it is the only rule that
\* fires no other counter changes, and when it does not fire its counter
\* does not change.
C16_SuddenAcceleration ==
    [][DetectStep =>
         LET d == ret'.driver_id
         IN  /\ RuleOnStep(ret'.acceleration_kph_s > SUDDEN_ACCEL_KPH_S,
                           "sudden_acceleration", SUDDEN_ACCEL_KPH_S,
                           "sudden_accel_count")
             /\ EventKinds(ret'.events) = <<"sudden_acceleration">> =>
                  \A counter \in {"overspeed_count", "harsh_brake_count", "idle_count"} :
                     driver_states'[d][counter] = StateBefore(d)[counter]]_vars

\* sudden acceleration has fired alone, on the second sample of the driver
C16_Witness ==
    /\ ret.call = "detect_events"
    /\ EventKinds(ret.events) = <<"sudden_acceleration">>
    /\ driver_states[ret.driver_id].sudden_accel_count = 1
    /\ driver_states[ret.driver_id].overspeed_count = 0
    /\ nCalls = 2

\* the counter of each kind of event
CounterOf ==
    [ overspeeding |-> "overspeed_count", harsh_braking |-> "harsh_brake_count",
      sudden_acceleration |-> "sudden_accel_count", idling |-> "idle_count" ]

\* how many of the four rules hold for the sample of this step
RulesHolding ==
    LET d == ret'.driver_id
        before == StateBefore(d).current_idle_start_ts
    IN  Cardinality(
          {k \in DOMAIN CounterOf :
             \/ k = "overspeeding" /\ ret'.speed_kph > OVERSPEED_KPH
             \/ k = "harsh_braking" /\ ret'.acceleration_kph_s < HARSH_BRAKE_KPH_S
             \/ k = "sudden_acceleration" /\ ret'.acceleration_kph_s > SUDDEN_ACCEL_KPH_S
             \/ /\ k = "idling"
                /\ ret'.speed_kph = 0
                /\ before # None
                /\ ret'.timestamp - Val(before) >= IDLE_SECONDS_THRESHOLD})

\* C17: the four rules are evaluated independently: a call returns at most
\* one event of each kind, as many events as rules hold, and each counter
\* grows by the number of events of its kind; a sample that is overspeeding
\* and harsh-braking returns exactly two events.
C17_RulesIndependent ==
    [][DetectStep =>
         LET d == ret'.driver_id
         IN  /\ \A k \in DOMAIN CounterOf :
                   /\ Len(OfKind(ret'.events, k)) <= 1
                   /\ driver_states'[d][CounterOf[k]] =
                         StateBefore(d)[CounterOf[k]] + Len(OfKind(ret'.events, k))
             /\ Len(ret'.events) = RulesHolding
             /\ (/\ ret'.speed_kph > OVERSPEED_KPH
                 /\ ret'.acceleration_kph_s < HARSH_BRAKE_KPH_S)
                => Len(ret'.events) = 2]_vars

\* one sample has fired overspeeding and harsh braking
C17_Witness ==
    /\ ret.call = "detect_events"
    /\ EventKinds(ret.events) = <<"overspeeding", "harsh_braking">>
    /\ driver_states[ret.driver_id].overspeed_count = 1
    /\ driver_states[ret.driver_id].harsh_brake_count = 1

\* the four counters of a driver's state
Counters == {"overspeed_count", "harsh_brake_count", "sudden_accel_count", "idle_count"}

\* this step is reset_driver_state(d): no run and no detector call takes it
ResetStep(d) ==
    /\ ret'.call = "reset_driver_state"
    /\ ret'.driver_id = d
    /\ tasks' = tasks
    /\ nCalls' = nCalls

\* C18: on every step other than a reset of the driver, a driver that has a
\* state keeps one, and none of its four counters gets smaller.
C18_CountersMonotone ==
    [][\A d \in DOMAIN driver_states :
          \/ ResetStep(d)
          \/ /\ d \in DOMAIN driver_states'
             /\ \A c \in Counters : driver_states'[d][c] >= driver_states[d][c]]_vars

\* the run has processed the file and returned, the driver's counters have
\* grown, and its score has been looked up
C18_Witness ==
    /\ ret.call = "calculate_risk_score"
    /\ ret.value < 100
    /\ Len(tasks) = 1
    /\ tasks[1] = Returned
    /\ driver_states[DriverId(1)].overspeed_count = 1

\* C19: a driver with no state scores 100; after reset_driver_state(d),
\* whatever was observed before, get_driver_state(d) reports no state and
\* calculate_risk_score(d) is 100; the reset of a driver that has no state
\* changes nothing, and a reset of d leaves every other driver's state as it was.
C19_ResetForgetsOneDriver ==
    [][/\ (/\ ret'.call = "calculate_risk_score"
           /\ ret'.driver_id \notin DOMAIN driver_states)
          => ret'.value = 100
       /\ ret'.call = "reset_driver_state" =>
            LET d == ret'.driver_id
            IN  /\ d \notin DOMAIN driver_states'
                /\ d \notin DOMAIN driver_states => driver_states' = driver_states
                /\ \A e \in DOMAIN driver_states \ {d} :
                      /\ e \in DOMAIN driver_states'
                      /\ driver_states'[e] = driver_states[e]
                /\ DOMAIN driver_states' \subseteq DOMAIN driver_states
       /\ (/\ ret.call = "reset_driver_state"
           /\ ret'.call = "get_driver_state"
           /\ ret'.driver_id = ret.driver_id)
          => ret'.value = None
       /\ (/\ ret.call = "reset_driver_state"
           /\ ret'.call = "calculate_risk_score"
           /\ ret'.driver_id = ret.driver_id)
          => ret'.value = 100]_vars

\* one driver was observed and reset and scores 100 again, while the other
\* driver keeps the state of its earlier samples
C19_Witness ==
    /\ ret.call = "calculate_risk_score"
    /\ ret.driver_id = DriverId(1)
    /\ ret.value = 100
    /\ DriverId(1) \in DOMAIN history
    /\ DOMAIN driver_states = {DriverId(2)}
    /\ driver_states[DriverId(2)].overspeed_count = Burst

\* this step is the one in which a send_json of run t returns or raises
SendReturns(t) ==
    /\ tasks[t].st = "send" /\ ~tasks[t].cancel
    /\ tasks'[t] # tasks[t] /\ ~tasks'[t].cancel

\* no connection is twice in the sequence
Distinct(conns) ==
    \A i, j \in DOMAIN conns : conns[i] = conns[j] => i = j

\* C20: in a broadcast, a send that raises removes exactly the connection it
\* was sent to and a send that returns removes none; either way the call goes
\* on with the next connection of the list taken at its start, in which each
\* connection registered then is once; so each is attempted once and the
\* call removes the connections whose send raised, and no other.
C20_BroadcastFailureIsolated ==
    [][\A t \in DOMAIN tasks : SendReturns(t) =>
         LET snap == tasks[t].snap
             websocket == Head(snap)
             attempt == Val(tasks'[t].attempt)
         IN  /\ Distinct(snap)
             /\ attempt.to = websocket
             /\ active_connections' =
                   (IF attempt.ok THEN active_connections
                    ELSE disconnect(active_connections, websocket))
             /\ Tail(snap) # <<>> =>
                   /\ tasks'[t].st = "send"
                   /\ tasks'[t].snap = Tail(snap)
                   /\ tasks'[t].log = tasks[t].log]_vars

\* the send to the first of two connections raised, that connection is gone
\* and the same broadcast is sending to the second
C20_Witness ==
    \E t \in DOMAIN tasks :
        /\ tasks[t].st = "send"
        /\ tasks[t].attempt = Some([to |-> 1, ok |-> FALSE])
        /\ tasks[t].snap = <<2>>
        /\ active_connections = <<2>>

\* C21: a broadcast with no connection registered attempts no delivery,
\* raises nothing and leaves the set empty: a row that a run begins with no
\* connection is processed without a send and the run goes on to its pacing
\* sleep, and when the last connection is lost in a send the remaining
\* broadcasts of the row return at once.
C21_NoObserverNoDelivery ==
    [][\A t \in DOMAIN tasks :
          /\ (StartsPoint(t) /\ active_connections = <<>>) =>
                /\ tasks'[t].st = "sleep"
                /\ tasks'[t].attempt = None
                /\ tasks'[t].log = <<>>
                /\ active_connections' = <<>>
          /\ (SendReturns(t) /\ Tail(tasks[t].snap) = <<>> /\ active_connections' = <<>>) =>
                /\ tasks'[t].st = "sleep"
                /\ tasks'[t].log = tasks[t].log \o tasks[t].todo
                /\ tasks'[t].todo = <<>>
                /\ tasks'[t].snap = <<>>]_vars

\* the only connection was lost in the send of the telemetry message, the
\* score and event broadcasts of the row found no connection and the run
\* sleeps before its next row
C21_Witness ==
    \E t \in DOMAIN tasks :
        /\ tasks[t].st = "sleep"
        /\ tasks[t].attempt # None
        /\ ~Val(tasks[t].attempt).ok
        /\ Len(tasks[t].log) > 1
        /\ active_connections = <<>>

\* the telemetry payload of the row run t is at after the step
PayloadAfter(t) ==
    TelemetryPayload(tasks'[t].unique_tracks[tasks'[t].ti],
                     tasks'[t].group[tasks'[t].pi],
                     Val(tasks'[t].result).speed_kph)

\* C22: whatever the database does while a sample's events and score are
\* persisted, the run goes on: the result of the sample carries every event
\* the detector counted and the driver's counters after the sample, the
\* counters keep the increments, the telemetry, score and event messages
\* of the sample are published when a connection is registered, and the
\* run is at its next suspension point, not ended.
C22_PersistFailureAbsorbed ==
    [][\A t \in DOMAIN tasks : StartsPoint(t) =>
         LET result == Val(tasks'[t].result)
             d == result.driver_id
             state == driver_states'[d]
         IN  /\ \A k \in DOMAIN CounterOf :
                   /\ result[CounterOf[k]] = state[CounterOf[k]]
                   /\ Len(OfKind(result.events, k)) =
                         state[CounterOf[k]] - StateBefore(d)[CounterOf[k]]
             /\ result.risk_score = calculate_risk_score(driver_states', d)
             /\ result.speed_kph > OVERSPEED_KPH =>
                   OfKind(result.events, "overspeeding") # <<>>
             /\ active_connections # <<>> =>
                   tasks'[t].log \o tasks'[t].todo =
                      PointMessages(PayloadAfter(t), result)
             /\ RUNNING' = RUNNING]_vars

\* the database raised at the first write of a sample with two events:
\* nothing of the sample is stored, its counters are kept and its first
\* message is being sent
C22_Witness ==
    \E t \in DOMAIN tasks :
        /\ tasks[t].st = "send"
        /\ tasks[t].result # None
        /\ Len(Val(tasks[t].result).events) = 2
        /\ db.events = <<>>
        /\ DOMAIN db.scores = {}
        /\ driver_states[DriverId(1)].overspeed_count = 1

\* run t sleeps after a row, and the next row of the track has a cell that
\* is not a number
BeforeMalformedRow(t) ==
    /\ tasks[t].st = "sleep" /\ ~tasks[t].cancel
    /\ tasks[t].pi < Len(tasks[t].group)
    /\ float(tasks[t].group[tasks[t].pi + 1].pos) = None

\* this step is the end of the pacing sleep of run t
SleepEnds(t) ==
    /\ tasks[t].st = "sleep" /\ ~tasks[t].cancel
    /\ tasks'[t] # tasks[t] /\ ~tasks'[t].cancel

\* C23: a row that cannot be parsed is skipped and its track goes on: when
\* the run is running and wakes before such a row, it is next at a later row
\* of the same track or at a row of a later track, or has completed; it has
\* not ended in an error.
C23_MalformedRowSkipped ==
    [][\A t \in DOMAIN tasks :
          (BeforeMalformedRow(t) /\ SleepEnds(t) /\ RUNNING) =>
             \/ /\ tasks'[t].st \in {"send", "sleep"}
                /\ tasks'[t].ti = tasks[t].ti
                /\ tasks'[t].pi > tasks[t].pi + 1
             \/ /\ tasks'[t].st \in {"send", "sleep"}
                /\ tasks'[t].ti > tasks[t].ti
             \/ /\ tasks'[t].st = "done"
                /\ tasks'[t].end = "completed"]_vars

\* this step is the first step of run t and ends it in the handler of line
\* 300: with a filter that parses and rows that parse, pd.read_csv raised
FirstStepFails(t) ==
    /\ tasks[t].st = "pending" /\ ~tasks[t].cancel
    /\ tasks'[t].st = "done" /\ tasks'[t].end = "error"

\* C24: a read failure of the trajectory file ends the run in its first
\* step: no row is processed and nothing is published, the driver states,
\* the database and the connections are as before, no other run task is
\* touched, the task ends as done (the exception goes no further than the
\* handler of the run) and is_running() is false, so that the next start
\* is accepted.
C24_ReadFailureAbortsRun ==
    [][\A t \in DOMAIN tasks : FirstStepFails(t) =>
          /\ driver_states' = driver_states
          /\ db' = db
          /\ active_connections' = active_connections
          /\ tasks'[t] = Done(tasks[t], "error")
          /\ \A u \in DOMAIN tasks \ {t} : tasks'[u] = tasks[u]
          /\ ~is_running']_vars

\* the read of the only run failed: the run is done, nothing was stored or
\* observed, and the replayer is idle
C24_Witness ==
    /\ Len(tasks) = 1
    /\ tasks[1].st = "done" /\ tasks[1].end = "error"
    /\ driver_states = <<>>
    /\ db.drivers = {}
    /\ ~is_running

\* the driver filter maps to no track of the file
NoKnownTrack(selected_driver_id) ==
    /\ selected_driver_id # NoFilter
    /\ \/ FilterError(selected_driver_id) # "none"
       \/ \A i \in DOMAIN csv : csv[i].track_id # FilterTrack(selected_driver_id)

\* C25: a run started with a driver filter that maps to no known track
\* processes no row and leaves the driver states and the database (drivers,
\* trips, events, scores) as they were, in each of its steps.
C25_UnknownFilterNoOp ==
    [][\A t \in DOMAIN tasks :
          (NoKnownTrack(tasks[t].filter) /\ tasks'[t] # tasks[t]) =>
             /\ ~StartsPoint(t)
             /\ driver_states' = driver_states
             /\ db' = db
             /\ active_connections' = active_connections]_vars

\* C26: compute_acceleration returns 0 when the elapsed time is zero or
\* negative, whatever the speeds, and otherwise the speed change divided by
\* the elapsed seconds (50 to 60 in 1 s gives 10, 60 to 50 in 1 s gives -10);
\* calculate_speed_kph returns 0 when the elapsed time is zero or negative;
\* both return a value for every input.
C26_TimingAnomalies ==
    /\ ret.call = "compute_acceleration" =>
          LET elapsed == ret.ts - ret.prev_ts
              change == ret.speed_kph - ret.prev_speed_kph
          IN  /\ elapsed <= 0 => ret.value = 0
              /\ elapsed > 0 => /\ ret.value * elapsed <= change
                                /\ change < (ret.value + 1) * elapsed
              /\ (elapsed = 1 /\ ret.prev_speed_kph = 50 /\ ret.speed_kph = 60)
                    => ret.value = 10
              /\ (elapsed = 1 /\ ret.prev_speed_kph = 60 /\ ret.speed_kph = 50)
                    => ret.value = 0 - 10
    /\ ret.call = "calculate_speed_kph" =>
          /\ ret.time2 - ret.time1 <= 0 => ret.value = 0
          /\ ret.value >= 0

\* the speed changed while the clock went backward, and the acceleration is 0
C26_Witness ==
    /\ ret.call = "compute_acceleration"
    /\ ret.ts < ret.prev_ts
    /\ ret.speed_kph # ret.prev_speed_kph
    /\ ret.value = 0

\* C27: the score of a driver state is
\* max(0, base - (overspeed*wOverspeed + harshBrake*wHarshBrake + idle*wIdle))
\* with the base and weights the process was configured with, and those
\* stay as they are while the process runs.
C27_ConfiguredScore ==
    /\ [](/\ ret.call = "calculate_risk_score"
          /\ ret.driver_id \in DOMAIN driver_states
          => LET state == driver_states[ret.driver_id]
             IN  ret.value =
                   Max(0, config.SCORE_BASE
                            - (state.overspeed_count * config.SCORE_OVERSPEED_WEIGHT
                               + state.harsh_brake_count * config.SCORE_HARSH_BRAKE_WEIGHT
                               + state.idle_count * config.SCORE_IDLE_WEIGHT)))
    /\ [][config' = config]_vars

\* C28: stop_simulation never interrupts a row in flight: a run that has
\* begun a row unwinds only from between rows, after the row's telemetry,
\* score and event messages were all handed to broadcast and delivered.
C28_StopNotPreemptive ==
    [][\A t \in DOMAIN tasks :
          (tasks[t].st # "done" /\ tasks'[t].st = "done")
              => /\ tasks[t].st # "send"
                 /\ PointClosed(t)]_vars

\* C29: the acceleration of a row that a run processes comes from the
\* driver's state as it was before the row, not from the previous row of the
\* run: 0 when the driver had no state or the row's timestamp is not later
\* than the state's last timestamp, otherwise the change from the state's
\* last speed per second since the state's last timestamp; and after the
\* row the state's last speed and last timestamp are the row's.
C29_OfRun(t) ==
    LET result == Val(tasks'[t].result)
        driver_id == result.driver_id
        timestamp == fromisoformat(result.timestamp)
        before == driver_states[driver_id]
    IN  /\ result.acceleration_kph_s =
             (IF driver_id \notin DOMAIN driver_states THEN 0
              ELSE IF timestamp <= before.last_timestamp THEN 0
              ELSE (result.speed_kph - before.last_speed_kph)
                       \div (timestamp - before.last_timestamp))
        /\ driver_id \in DOMAIN driver_states'
        /\ driver_states'[driver_id].last_speed_kph = result.speed_kph
        /\ driver_states'[driver_id].last_timestamp = timestamp

C29_AccelerationFromState ==
    [][\A t \in DOMAIN tasks : StartsPoint(t) => C29_OfRun(t)]_vars

\* a run is at the second row of track 1, which lies 50 m and 3 s after the
\* first, and the row's acceleration is 0: another run had passed the same
\* sample to the detector before
C29_Witness ==
    \E t \in DOMAIN tasks :
        /\ tasks[t].st \in {"send", "sleep"}
        /\ tasks[t].pi = 2
        /\ tasks[t].result # None
        /\ Val(tasks[t].result).speed_kph = 60
        /\ Val(tasks[t].result).acceleration_kph_s = 0

\* the last row of the track a run went through before the one it is in
LastRowBefore(t) ==
    LET rows == RowsOfTrack(csv, tasks[t].unique_tracks[tasks[t].ti - 1])
    IN  CHOOSE r \in SeqToSet(rows) : \A q \in SeqToSet(rows) : q.time <= r.time

\* C30: the first row of every track a run enters is emitted with speed 0,
\* and the speed of every later row is the distance to and the time since
\* the row before it in the same track, whatever the run or any earlier run
\* processed before.
C30_SpeedFromTrackPredecessor ==
    \A t \in DOMAIN tasks :
        (tasks[t].st \in {"send", "sleep"} /\ tasks[t].result # None) =>
            LET group == tasks[t].group
                pi == tasks[t].pi
                speed_kph == Val(tasks[t].result).speed_kph
            IN  /\ \A i \in DOMAIN group :
                      group[i].track_id = tasks[t].unique_tracks[tasks[t].ti]
                /\ IF pi = 1 THEN speed_kph = 0
                   ELSE speed_kph =
                          calculate_speed_kph(group[pi - 1].pos, group[pi - 1].time,
                                              group[pi].pos, group[pi].time)
                /\ \A i \in DOMAIN tasks[t].log :
                      tasks[t].log[i].type = "telemetry"
                          => tasks[t].log[i].payload.speed_kph = speed_kph

\* a run is at the first row of its second track, which lies 50 m and 3 s
\* after the row the run processed before, and its speed is 0
C30_Witness ==
    \E t \in DOMAIN tasks :
        /\ tasks[t].st \in {"send", "sleep"}
        /\ tasks[t].result # None
        /\ tasks[t].ti = 2 /\ tasks[t].pi = 1
        /\ DriverId(tasks[t].unique_tracks[1]) \in DOMAIN driver_states
        /\ Val(tasks[t].result).speed_kph = 0
        /\ calculate_speed_kph(LastRowBefore(t).pos, LastRowBefore(t).time,
                               tasks[t].group[1].pos, tasks[t].group[1].time) # 0

\* the event writes and the score writes among the database writes asked
\* for the row run t is at after this step
RequestedIn(t, table) ==
    SelectSeq(tasks'[t].requested, LAMBDA r : r.write.table = table)

FirstTracks ==
    LET ids == {csv[i].track_id : i \in DOMAIN csv}
    IN  {x \in ids : Cardinality({y \in ids : y < x}) < DEFAULT_TRACKS}

\* C32: a run without a driver filter selects the first 3 tracks of the file
\* in ascending order of their identifiers, all of them when the file has
\* fewer, and no row of another track is processed or published: no result,
\* no message, no driver state and no database row is of another track.
C32_FirstThreeTracks ==
    /\ \A t \in DOMAIN tasks :
          (tasks[t].filter = NoFilter /\ tasks[t].st \in {"send", "sleep"}) =>
             LET unique_tracks == tasks[t].unique_tracks
             IN  /\ SeqToSet(unique_tracks) = FirstTracks
                 /\ \A i, j \in DOMAIN unique_tracks :
                       i < j => unique_tracks[i] < unique_tracks[j]
                 /\ tasks[t].result # None =>
                       \E k \in FirstTracks :
                           Val(tasks[t].result).driver_id = DriverId(k)
                 /\ \A i \in DOMAIN tasks[t].log :
                       tasks[t].log[i].type = "telemetry" =>
                           \E k \in FirstTracks :
                               tasks[t].log[i].payload.track_id = str(k)
    /\ DOMAIN driver_states \subseteq {DriverId(k) : k \in FirstTracks}
    /\ db.drivers \subseteq {DriverId(k) : k \in FirstTracks}
    /\ db.trips \subseteq {str(k) : k \in FirstTracks}

\* a run has gone through three of the file's four tracks and has completed
C32_Witness ==
    /\ csv = FourTracks
    /\ DOMAIN driver_states = {DriverId(1), DriverId(2), DriverId(3)}
    /\ \E t \in DOMAIN tasks : tasks[t].end = "completed"

\* this step is one in which run t enters a broadcast call's send loop
BroadcastBegins(t) ==
    /\ tasks'[t].st = "send"
    /\ \/ tasks[t].st # "send"
       \/ tasks'[t].log # tasks[t].log

\* conns without the connections that are not in kept, in the same order
Kept(conns, kept) == SelectSeq(conns, LAMBDA c : c \in kept)

\* C33: the connections are kept in the order they were registered (a new
\* one is put last, removing one leaves the others in their order), and a
\* broadcast call goes through the connections registered when it began in
\* that order, one at a time: each send is to the first one not yet
\* attempted, and the call then goes on with the ones after it.
C33_RegistrationOrder ==
    /\ [][/\ Len(active_connections') > Len(active_connections) =>
               \E c \in 1..lim.conns :
                   active_connections' = Append(active_connections, c)
          /\ Len(active_connections') <= Len(active_connections) =>
               active_connections' =
                   Kept(active_connections, SeqToSet(active_connections'))]_vars
    /\ [][\A t \in DOMAIN tasks :
            /\ BroadcastBegins(t) => tasks'[t].snap = active_connections'
            /\ SendReturns(t) =>
                  /\ Val(tasks'[t].attempt).to = Head(tasks[t].snap)
                  /\ Tail(tasks[t].snap) # <<>> =>
                        /\ ~BroadcastBegins(t)
                        /\ tasks'[t].snap = Tail(tasks[t].snap)]_vars

\* connection 2 registered before connection 1: a broadcast has sent to
\* connection 2 and is sending to connection 1
C33_Witness ==
    \E t \in DOMAIN tasks :
        /\ tasks[t].st = "send"
        /\ active_connections = <<2, 1>>
        /\ tasks[t].attempt = Some([to |-> 2, ok |-> TRUE])
        /\ tasks[t].snap = <<1>>

\* this step is a detect_events call for driver d, made directly or by a
\* run that begins a row of d's track
C34_Observes(d) ==
    \/ DetectStep /\ ret'.driver_id = d
    \/ \E t \in DOMAIN tasks :
          StartsPoint(t) /\ Val(tasks'[t].result).driver_id = d

\* this step is a reset_driver_state call for driver d
C34_Resets(d) ==
    /\ ret'.call = "reset_driver_state" /\ ret'.driver_id = d
    /\ UNCHANGED <<RUNNING, current_task, tasks, active_connections, db,
                   background, ready, nCalls>>

\* on this step the state of driver d is created, changed or removed
C34_Touched(d) ==
    \/ (d \in DOMAIN driver_states) # (d \in DOMAIN driver_states')
    \/ /\ d \in DOMAIN driver_states /\ d \in DOMAIN driver_states'
       /\ driver_states'[d] # driver_states[d]

\* C34: the state of a driver is created, changed or removed only by a
\* detect_events call for that driver or by a reset of that driver: a score
\* or a lookup, of a known or of an unseen driver, a broadcast, a start and a
\* stop leave every driver's state as it is, and a detect_events call
\* leaves the states of the other drivers as they are.
C34_StoreFrame ==
    [][/\ \A d \in DOMAIN driver_states \cup DOMAIN driver_states' :
             C34_Touched(d) => C34_Observes(d) \/ C34_Resets(d)
       /\ (/\ ret'.call \in {"calculate_risk_score", "get_driver_state"}
           /\ UNCHANGED <<RUNNING, current_task, tasks, active_connections, db,
                          background, ready, nCalls>>)
          => driver_states' = driver_states
       /\ (RUNNING' # RUNNING \/ current_task' # current_task
              \/ background' # background
              \/ active_connections' # active_connections)
          => (driver_states' = driver_states
                \/ \E t \in DOMAIN tasks : StartsPoint(t))
       /\ (\E t \in DOMAIN tasks : SendReturns(t) /\ ~StartsPoint(t))
          => driver_states' = driver_states]_vars

\* a driver that was never observed was looked up: the lookup gave nothing,
\* the driver has no state and an observed driver has one
C34_Witness ==
    /\ ret.call = "get_driver_state"
    /\ ret.driver_id = UnseenDriver
    /\ UnseenDriver \notin DOMAIN driver_states
    /\ driver_states # <<>>

\* this step is the end of run t's task, or the return of the
\* start_simulation call that awaited it
Finalises(t) ==
    \/ tasks[t].st # "done" /\ tasks'[t].st = "done"
    \/ tasks[t].outer = "await" /\ tasks'[t].outer = "done"

\* C35: the finalisation of a run that stop_simulation cancelled leaves the
\* running flag of a run started after that stop as it is: no step in which
\* a cancelled run that is not the run started last ends, or in which its
\* start_simulation call returns, changes the flag.
C35_NoStaleCleanup ==
    [][\A t \in DOMAIN tasks :
          (/\ Finalises(t)
           /\ tasks[t].cancel \/ tasks[t].end = "cancelled"
           /\ t # current_task)
              => RUNNING' = RUNNING]_vars

\* the score messages and the event payloads among the messages of run t's
\* row that were handed to broadcast
ScoresPublished(t) == SelectSeq(tasks[t].log, LAMBDA message : message.type = "score")
EventsPublished(t) ==
    LET messages == SelectSeq(tasks[t].log, LAMBDA message : message.type = "event")
    IN  [i \in DOMAIN messages |-> messages[i].payload]

\* this step is one in which run t leaves the row it is at: it begins
\* another row, or its task ends
LeavesPoint(t) ==
    /\ tasks[t].st \in {"send", "sleep"} /\ tasks[t].result # None
    /\ StartsPoint(t) \/ tasks'[t].st = "done"

\* C36: a score message of a row carries the counters the driver's state
\* had just after the row's detection and the score of that state, and when
\* the row's messages are published to registered connections, every event
\* the detector counted for the row has been published as an event message
\* by the time the run leaves the row.
C36_ScoreAndEventsPublished ==
    [][\A t \in DOMAIN tasks :
         /\ StartsPoint(t) =>
               LET result == Val(tasks'[t].result)
                   state == driver_states'[result.driver_id]
                   score == ScoreMessage(result).payload
               IN  /\ score.overspeed_count = state.overspeed_count
                   /\ score.harsh_brake_count = state.harsh_brake_count
                   /\ score.sudden_accel_count = state.sudden_accel_count
                   /\ score.idle_count = state.idle_count
                   /\ score.risk_score = ScoreOfPenalty(Penalty(state))
                   /\ Len(result.events) =
                         (state.overspeed_count + state.harsh_brake_count
                            + state.sudden_accel_count + state.idle_count)
                         - (IF result.driver_id \in DOMAIN driver_states
                            THEN LET before == driver_states[result.driver_id]
                                 IN  before.overspeed_count + before.harsh_brake_count
                                       + before.sudden_accel_count + before.idle_count
                            ELSE 0)
         /\ \A i \in DOMAIN ScoresPublished(t) :
               ScoresPublished(t)[i] = ScoreMessage(Val(tasks[t].result))
         /\ (LeavesPoint(t) /\ tasks[t].log # <<>>) =>
               EventsPublished(t) = Val(tasks[t].result).events]_vars

\* this step is one in which a broadcast of run t calls send_json
SendBegins(t) ==
    /\ tasks'[t].st = "send"
    /\ tasks[t].st # "send" \/ tasks'[t].snap # tasks[t].snap

\* C37: a broadcast calls send_json only of a connection that is registered
\* at that time, so none that was unregistered before, be it after the
\* broadcast began; and a step that registers a connection changes nothing
\* of a broadcast in progress.
C37_NoDeliveryAfterUnregister ==
    [][\A t \in DOMAIN tasks :
         /\ SendBegins(t) =>
               \E i \in DOMAIN active_connections :
                   active_connections[i] = Head(tasks'[t].snap)
         /\ Len(active_connections') > Len(active_connections) =>
               tasks'[t] = tasks[t]]_vars

\* C38: the first row of a track that a run processes, in the first run
\* and in every later one, has speed 0 and acceleration 0, gives no event
\* and leaves the four counters of the track's driver as earlier rows and
\* earlier runs left them (0 for a driver without state).
C38_FirstPointQuiet ==
    [][\A t \in DOMAIN tasks :
         (StartsPoint(t) /\ tasks'[t].pi = 1) =>
            LET result == Val(tasks'[t].result)
                d == result.driver_id
            IN  /\ result.speed_kph = 0
                /\ result.acceleration_kph_s = 0
                /\ result.events = <<>>
                /\ \A c \in Counters :
                      driver_states'[d][c] =
                         (IF d \in DOMAIN driver_states THEN driver_states[d][c] ELSE 0)]_vars

\* a run is at the first row of track 2 again: an earlier run had counted an
\* overspeeding for driver 1 and an idling for driver 2, whose idling
\* episode is open again, and the row gave no event
C38_Witness ==
    \E t \in DOMAIN tasks :
        /\ tasks[t].st = "sleep"
        /\ tasks[t].ti = 2 /\ tasks[t].pi = 1
        /\ Val(tasks[t].result).events = <<>>
        /\ DOMAIN driver_states = {DriverId(1), DriverId(2)}
        /\ driver_states[DriverId(1)].overspeed_count >= 1
        /\ driver_states[DriverId(2)].idle_count = 1
        /\ driver_states[DriverId(2)].current_idle_start_ts = Some(0)

\* this step is a step of run t's own: its first step or the end of a
\* pacing sleep, with no cancellation
OwnStep(t) ==
    /\ tasks[t].st \in {"pending", "sleep"}
    /\ ~tasks[t].cancel /\ ~tasks'[t].cancel
    /\ tasks'[t].st = "done" \/ StartsPoint(t)

\* the tracks run t passes over on this step: selected, not yet entered,
\* and before the track the step enters
PassedOver(t) ==
    {k \in TracksAhead(t) :
        \/ tasks'[t].st = "done"
        \/ k < tasks'[t].unique_tracks[tasks'[t].ti]}

\* C39: a track whose driver and trip lookup raises is passed over: the
\* state of its driver stays as it is, no row of it is processed, and the
\* run goes on: with the flag set, the same step enters the next track
\* whose lookup does not raise, or completes the run when there is none.
C39_DatabaseErrorSkipsTrack ==
    [][\A t \in DOMAIN tasks : OwnStep(t) =>
         /\ \A k \in PassedOver(t) :
               /\ (DriverId(k) \in DOMAIN driver_states')
                     = (DriverId(k) \in DOMAIN driver_states)
               /\ DriverId(k) \in DOMAIN driver_states =>
                     driver_states'[DriverId(k)] = driver_states[DriverId(k)]
               /\ StartsPoint(t) =>
                     Val(tasks'[t].result).driver_id # DriverId(k)
         /\ (RUNNING /\ PassedOver(t) # {}) =>
               \/ StartsPoint(t)
               \/ tasks'[t].end \in {"completed", "error"}]_vars

\* the lookup of track 1 raised: the run is at the first row of track 2,
\* and driver 1 has neither a state nor a row in the database
C39_Witness ==
    \E t \in DOMAIN tasks :
        /\ tasks[t].st \in {"send", "sleep"}
        /\ tasks[t].unique_tracks = <<1, 2>>
        /\ tasks[t].ti = 2 /\ tasks[t].pi = 1
        /\ DriverId(1) \notin DOMAIN driver_states
        /\ DriverId(1) \notin db.drivers

====
